---- MODULE Spec2Model ----
(***************************************************************************)
(* Model of the playlist-triage backend (sahilmtayade/songsorter):         *)
(*   app/services/spotify_service.py  profile building and match scoring   *)
(*   app/routers/triage.py            tag generation and the ranking pass  *)
(*                                                                         *)
(* Python floats are modelled as decimal floating-point numbers            *)
(* [m |-> mantissa, e |-> exponent] of value m * 10^e with Digits          *)
(* significant digits and IEEE-754 round-to-nearest-even after every       *)
(* operation (float64 carries 53 bits; the model carries Digits decimal    *)
(* digits so that every intermediate integer fits TLC's 32-bit integers).  *)
(***************************************************************************)
EXTENDS Integers, Sequences, FiniteSets, TLC

VARIABLES
    track_features,     \* calculate_weighted_distance: the track's feature dict
    playlist_profile,   \* calculate_weighted_distance: {"means", "stds", "track_count"}
    fk,                 \* calculate_weighted_distance: index of feature_key in FEATURE_KEYS
    distance,           \* calculate_weighted_distance: the accumulated distance
    score,              \* calculate_weighted_distance: the returned score, None before
    earlier,            \* the previous call on the same profile: its track and score
    track_items,        \* Spotify: the items of the playlist's /tracks listing
    audio_features,     \* Spotify: track id -> its audio-features object, or None
    track_ids,          \* get_playlist_audio_profile: the collected track ids
    batch_start,        \* get_playlist_audio_profile: i of the batch loop
    features_data,      \* get_playlist_audio_profile: the non-null feature objects
    profile,            \* get_playlist_audio_profile: the returned value
    playlists,          \* _generate_playlist_suggestions: the playlist dicts
    playlist_idx,       \* _generate_playlist_suggestions: position of the for loop
    suggestions,        \* _generate_playlist_suggestions: the list of entries
    failed,             \* positions of the playlists whose profile requests failed
    tags,               \* _generate_matching_tags: the returned list, None before
    library,            \* Spotify: the user's playlist listing and saved-tracks listing
    sp_playlists,       \* get_unassigned_saved_tracks: playlists
    sp_idx,             \* get_unassigned_saved_tracks: position of the playlist loop
    playlist_track_ids, \* get_unassigned_saved_tracks: the set of ids found in playlists
    unassigned_tracks,  \* get_unassigned_saved_tracks: unassigned_tracks
    song,               \* next_song: the song selected, None before
    response,           \* next_song: the TriageResponse or the exception that leaves it
    raised,             \* the exception that left the operation that failed, or None
    requested_ids,      \* Spotify: the ids of each audio-features request of the call
    passes,             \* the ranking passes of the requests served at the same time
    spotify_api,        \* what a request to the Spotify API meets at the moment
    served,             \* the responses of the health endpoints, in the order served
    environ,            \* the LOG_LEVEL that Settings() finds in the environment
    settings,           \* Settings(): the instance or the error, None before
    request,            \* the cookies and headers of a request to GET /triage/next
    access_token,       \* get_current_user_token: the returned token, None before
    paging,             \* _get_paginated_data: the server's pages, url, all_items, result
    oauth,              \* GET /auth/callback: the request, the token endpoint, the response
    pc                  \* position of the running operation

scoreVars == <<track_features, playlist_profile, fk, distance, score, earlier>>

profileVars == <<track_items, audio_features, track_ids, batch_start, features_data, profile>>

rankVars == <<playlists, playlist_idx, suggestions, failed>>

\* the variables of the operations outside scoring, profile building and ranking
triageVars ==
    <<library, sp_playlists, sp_idx, playlist_track_ids, unassigned_tracks, song, response>>

requestVars == <<raised, requested_ids>>

\* the variables of the operations outside GET /triage/next
healthVars == <<spotify_api, served>>

configVars == <<environ, settings>>

authVars == <<request, access_token>>

flowVars == <<paging, oauth>>

auxVars == <<passes, healthVars, configVars, authVars, flowVars>>

\* the variables of GET /triage/next served one request at a time
coreVars == <<scoreVars, profileVars, rankVars, tags, triageVars, requestVars>>

restVars == <<tags, triageVars, requestVars, auxVars>>

vars == <<scoreVars, profileVars, rankVars, restVars, pc>>

\* Python's None
None == [none |-> TRUE]

(***************************************************************************)
(* Bounds of the model.                                                    *)
(***************************************************************************)
Digits == 3

(***************************************************************************)
(* Integer helpers.                                                        *)
(***************************************************************************)
RECURSIVE Pow10(_)
Pow10(n) == IF n = 0 THEN 1 ELSE 10 * Pow10(n - 1)

RECURSIVE NumDigits(_)
NumDigits(a) == IF a < 10 THEN 1 ELSE 1 + NumDigits(a \div 10)

Abs(n) == IF n < 0 THEN 0 - n ELSE n

\* drop the last d >= 1 decimal digits of a >= 0, rounding half to even
RoundHalfEven(a, d) ==
    LET q == a \div Pow10(d)
        r == a % Pow10(d)
        h == 5 * Pow10(d - 1)
    IN  IF r > h \/ (r = h /\ q % 2 = 1) THEN q + 1 ELSE q

RECURSIVE ISqrtRec(_, _, _)
ISqrtRec(n, lo, hi) ==
    IF lo >= hi THEN lo
    ELSE LET mid == (lo + hi + 1) \div 2
         IN  IF mid * mid <= n THEN ISqrtRec(n, mid, hi) ELSE ISqrtRec(n, lo, mid - 1)

ISqrt(n) == ISqrtRec(n, 0, 46340)

(***************************************************************************)
(* Floating point: the value n * 10^e rounded to Digits significant digits.*)
(***************************************************************************)
Float(n, e) ==
    LET a == Abs(n)
        s == IF n < 0 THEN 0 - 1 ELSE 1
        k == NumDigits(a)
    IN  IF a = 0 THEN [m |-> 0, e |-> 0]
        ELSE IF k > Digits
             THEN LET q == RoundHalfEven(a, k - Digits)
                  IN  IF q = Pow10(Digits)
                      THEN [m |-> s * Pow10(Digits - 1), e |-> e + k - Digits + 1]
                      ELSE [m |-> s * q, e |-> e + k - Digits]
             ELSE [m |-> s * a * Pow10(Digits - k), e |-> e - (Digits - k)]

FZero == [m |-> 0, e |-> 0]

FNeg(a) == [m |-> 0 - a.m, e |-> a.e]

\* a + b; an operand more than Digits + 1 places below the other is absorbed
FAdd(a, b) ==
    IF a.m = 0 THEN b
    ELSE IF b.m = 0 THEN a
    ELSE LET hi == IF a.e >= b.e THEN a ELSE b
             lo == IF a.e >= b.e THEN b ELSE a
             g  == hi.e - lo.e
         IN  IF g > Digits + 1 THEN hi
             ELSE Float(hi.m * Pow10(g) + lo.m, lo.e)

FSub(a, b) == FAdd(a, FNeg(b))

FMul(a, b) == Float(a.m * b.m, a.e + b.e)

\* a / b for b # 0: Digits + 2 quotient digits and a sticky digit, then rounded
FDiv(a, b) ==
    LET s   == IF (a.m < 0) # (b.m < 0) THEN 0 - 1 ELSE 1
        num == Abs(a.m) * Pow10(Digits + 1)
        q   == num \div Abs(b.m)
        r   == num % Abs(b.m)
    IN  Float(s * (q * 10 + (IF r = 0 THEN 0 ELSE 1)), a.e - b.e - Digits - 2)

\* sqrt(a) for a >= 0, correctly rounded
FSqrt(a) ==
    IF a.m = 0 THEN FZero
    ELSE LET k   == IF (a.e - Digits) % 2 = 0 THEN Digits ELSE Digits + 1
             n   == a.m * Pow10(k)
             r   == ISqrt(n)
             rem == n - r * r
             d   == IF rem = 0 THEN 0 ELSE IF rem <= r THEN 1 ELSE 9
         IN  Float(r * 10 + d, ((a.e - k) \div 2) - 1)

FLess(a, b) == FSub(a, b).m < 0

FLeq(a, b) == FSub(a, b).m <= 0

FMax(a, b) == IF FLess(a, b) THEN b ELSE a

FMin(a, b) == IF FLess(b, a) THEN b ELSE a

FAbs(a) == [m |-> Abs(a.m), e |-> a.e]

(***************************************************************************)
(* numpy.exp.  The argument is converted to fixed point (units of 10^-7),  *)
(* reduced by multiples of ln 10 and then by 8, summed as a degree-7       *)
(* Taylor polynomial, squared three times and rounded to a float.  An      *)
(* argument of 200 or more underflows to 0.0 (float64: 745.2 or more).     *)
(***************************************************************************)
FxOne == 10000000

FxLn10 == 23025851

FxLimit == 200

\* a * b / 10^7 for fixed-point a, b <= 10^7, by halves to stay within 32 bits
FxMul(a, b) ==
    LET a1 == a \div 10000
        a0 == a % 10000
        b1 == b \div 10000
        b0 == b % 10000
    IN  a1 * b1 * 10 + ((a1 * b0 + a0 * b1 + ((a0 * b0) \div 10000)) \div 1000)

\* the fixed-point value of a float x >= 0, or -1 when x >= FxLimit
ToFx(x) ==
    IF x.m = 0 THEN 0
    ELSE IF x.e + 7 >= 0
         THEN IF x.e + 7 > 9 THEN 0 - 1
              ELSE IF x.m >= (FxLimit * FxOne) \div Pow10(x.e + 7) THEN 0 - 1
              ELSE x.m * Pow10(x.e + 7)
         ELSE IF 0 - 7 - x.e > Digits THEN 0
              ELSE RoundHalfEven(x.m, 0 - 7 - x.e)

RECURSIVE FxTaylor(_, _, _)
FxTaylor(y, t, j) ==
    IF j = 0 THEN t ELSE FxTaylor(y, FxOne - (FxMul(y, t) \div j), j - 1)

\* exp(-x) for a float x >= 0
ExpNeg(x) ==
    LET fx == ToFx(x)
        k  == fx \div FxLn10
        y  == (fx % FxLn10) \div 8
        t1 == FxTaylor(y, FxOne, 7)
        t2 == FxMul(t1, t1)
        t4 == FxMul(t2, t2)
        t8 == FxMul(t4, t4)
    IN  IF fx < 0 THEN FZero ELSE Float(t8, 0 - 7 - k)

FHuge == [m |-> Pow10(Digits - 1), e |-> 99]

\* numpy.exp(a)
NpExp(a) ==
    IF a.m <= 0 THEN ExpNeg(FNeg(a))
    ELSE IF ExpNeg(a).m = 0 THEN FHuge
    ELSE FDiv(Float(1, 0), ExpNeg(a))

\* numpy.clip(x, lo, hi)
NpClip(x, lo, hi) == FMin(FMax(x, lo), hi)

(***************************************************************************)
(* Python dictionaries are functions; d.get(k, default).                   *)
(***************************************************************************)
Get(d, k, default) == IF k \in DOMAIN d THEN d[k] ELSE default

(***************************************************************************)
(* SpotifyService: class constants.                                        *)
(***************************************************************************)
FEATURE_KEYS ==
    << "danceability", "energy", "key", "valence", "acousticness",
       "instrumentalness", "liveness", "speechiness", "tempo" >>

MIN_TRACKS_FOR_PROFILE == 5

MAX_BATCH_SIZE == 100

\* the literal 1e-6 of calculate_weighted_distance
StdFloor == Float(1, 0 - 6)

(***************************************************************************)
(* SpotifyService.calculate_weighted_distance                              *)
(***************************************************************************)
\* faulty variant: a missing std weighs 1.0 instead of 1 / 1e-6
DistanceStep_StdDefaultOne(dist, feature_key, track, prof) ==
    LET std         == Get(prof.stds, feature_key, Float(1, 0))
        weight      == FDiv(Float(1, 0), FMax(std, StdFloor))
        track_value == Get(track, feature_key, FZero)
        mean_value  == Get(prof.means, feature_key, FZero)
        diff        == FSub(track_value, mean_value)
    IN  FAdd(dist, FMul(weight, FMul(diff, diff)))

\* faulty variant: the difference is not squared
DistanceStep_NotSquared(dist, feature_key, track, prof) ==
    LET std         == Get(prof.stds, feature_key, StdFloor)
        weight      == FDiv(Float(1, 0), FMax(std, StdFloor))
        track_value == Get(track, feature_key, FZero)
        mean_value  == Get(prof.means, feature_key, FZero)
        diff        == FSub(track_value, mean_value)
    IN  FAdd(dist, FMul(weight, diff))

\* one iteration of the loop over FEATURE_KEYS: the new value of distance
DistanceStep(dist, feature_key, track, prof) ==
    LET std         == Get(prof.stds, feature_key, StdFloor)
        weight      == FDiv(Float(1, 0), FMax(std, StdFloor))
        track_value == Get(track, feature_key, FZero)
        mean_value  == Get(prof.means, feature_key, FZero)
        diff        == FSub(track_value, mean_value)
    IN  FAdd(dist, FMul(weight, FMul(diff, diff)))

RECURSIVE DistanceLoop(_, _, _, _)
DistanceLoop(dist, i, track, prof) ==
    IF i > Len(FEATURE_KEYS) THEN dist
    ELSE DistanceLoop(DistanceStep(dist, FEATURE_KEYS[i], track, prof),
                      i + 1, track, prof)

\* the value of distance after the loop
WeightedDistance(track, prof) == DistanceLoop(FZero, 1, track, prof)

\* faulty variant: the distance is returned in place of the score
ScoreOfDistance_ReturnsDistance(dist) == dist

\* faulty variant: the decay is not scaled to 0..100
ScoreOfDistance_Unscaled(dist) ==
    NpClip(NpExp(FDiv(FNeg(dist), Float(10, 0))), FZero, Float(100, 0))

\* score = 100.0 * np.exp(-distance / 10.0); float(np.clip(score, 0.0, 100.0))
ScoreOfDistance(dist) ==
    LET raw == FMul(Float(100, 0), NpExp(FDiv(FNeg(dist), Float(10, 0))))
    IN  NpClip(raw, FZero, Float(100, 0))

calculate_weighted_distance(track, prof) ==
    ScoreOfDistance(WeightedDistance(track, prof))

(***************************************************************************)
(* Inputs of the scoring specification.                                    *)
(***************************************************************************)
FKeySet == {FEATURE_KEYS[i] : i \in 1..Len(FEATURE_KEYS)}

\* the profile of the scenario of the specification: tight key and tempo
ProfileScenario ==
    [means |-> [k \in FKeySet |->
                   CASE k = "danceability" -> Float(8, 0 - 1)
                     [] k = "energy" -> Float(9, 0 - 1)
                     [] k = "key" -> Float(5, 0)
                     [] k = "valence" -> Float(8, 0 - 1)
                     [] k = "acousticness" -> Float(1, 0 - 1)
                     [] k = "instrumentalness" -> FZero
                     [] k = "liveness" -> Float(1, 0 - 1)
                     [] k = "speechiness" -> Float(5, 0 - 2)
                     [] OTHER -> Float(120, 0)],
     stds |-> [k \in FKeySet |->
                   CASE k = "key" -> Float(5, 0 - 1)
                     [] k = "tempo" -> Float(15, 0)
                     [] OTHER -> Float(1, 0 - 1)],
     track_count |-> 5]

\* a degenerate profile: no spread on any attribute
ProfileDegenerate ==
    [means |-> [k \in FKeySet |-> Float(5, 0 - 1)],
     stds |-> [k \in FKeySet |-> FZero],
     track_count |-> 5]

\* a profile with missing entries in means and in stds
ProfilePartial ==
    [means |-> [k \in {"energy", "tempo"} |->
                   IF k = "energy" THEN Float(5, 0 - 1) ELSE Float(100, 0)],
     stds |-> [k \in {"energy", "key", "tempo"} |->
                   IF k = "energy" THEN Float(1, 0)
                   ELSE IF k = "key" THEN FZero ELSE Float(20, 0)],
     track_count |-> 7]

ProfileInputs == {ProfileScenario, ProfileDegenerate, ProfilePartial}

\* what a track attribute is set to, relative to the profile's mean
Offsets == {FZero, Float(1, 0 - 3), Float(0 - 1, 0 - 1), Float(3, 0 - 1), Float(0 - 50, 0)}

\* marks a key that the dict does not have
Absent == [absent |-> TRUE]

\* the dict d with key k set to value v, or without key k when v is Absent
DictWith(d, k, v) ==
    IF v = Absent THEN [j \in DOMAIN d \ {k} |-> d[j]]
    ELSE [j \in DOMAIN d \cup {k} |-> IF j = k THEN v ELSE d[j]]

\* the track that equals the profile's means on every attribute
TrackAtMeans(prof) == [k \in FKeySet |-> Get(prof.means, k, FZero)]

ValueAt(prof, k, o) ==
    IF o = Absent THEN Absent ELSE FAdd(Get(prof.means, k, FZero), o)

\* the variables of get_playlist_audio_profile while no call is running
IdleProfile ==
    /\ track_items = <<>>
    /\ audio_features = <<>>
    /\ track_ids = <<>>
    /\ batch_start = 0
    /\ features_data = <<>>
    /\ profile = None

\* the variables of _generate_playlist_suggestions while no call is running
IdleRank ==
    /\ playlists = <<>>
    /\ playlist_idx = 0
    /\ suggestions = <<>>
    /\ failed = {}

\* the variables of the other operations while none of them is running
IdleTags == tags = None

\* the variables of next_song and get_unassigned_saved_tracks while no request
\* is served
IdleTriage ==
    /\ library = None
    /\ sp_playlists = <<>>
    /\ sp_idx = 0
    /\ playlist_track_ids = {}
    /\ unassigned_tracks = <<>>
    /\ song = None
    /\ response = None

\* no request has failed or was sent
IdleRequests ==
    /\ raised = None
    /\ requested_ids = <<>>

IdleHealth ==
    /\ spotify_api = "unused"
    /\ served = <<>>

IdleConfig ==
    /\ environ = None
    /\ settings = None

IdleFlows ==
    /\ paging = None
    /\ oauth = None

IdleAuth ==
    /\ request = None
    /\ access_token = None

IdleAux ==
    /\ passes = <<>>
    /\ IdleHealth
    /\ IdleConfig
    /\ IdleAuth
    /\ IdleFlows

IdleRest ==
    /\ IdleTags
    /\ IdleTriage
    /\ IdleRequests
    /\ IdleAux

(***************************************************************************)
(* The scoring specification: calculate_weighted_distance, one action per  *)
(* loop iteration, called on a track and once more on the same track with  *)
(* one attribute moved further from the mean.                              *)
(***************************************************************************)
InitScore ==
    /\ playlist_profile \in ProfileInputs
    /\ \E k1 \in FKeySet, o1 \in Offsets \cup {Absent}, o2 \in {FZero, Absent},
          extra \in {Absent, Float(0 - 7, 0)} :
          track_features =
              DictWith(DictWith(DictWith(TrackAtMeans(playlist_profile),
                                         "tempo", ValueAt(playlist_profile, "tempo", o2)),
                                k1, ValueAt(playlist_profile, k1, o1)),
                       "loudness", extra)
    /\ fk = 1
    /\ distance = FZero
    /\ score = None
    /\ earlier = None
    /\ pc = "loop"
    /\ IdleProfile
    /\ IdleRank
    /\ IdleRest

\* for feature_key in self.FEATURE_KEYS: distance += weight * (diff ** 2)
ScoreStep ==
    /\ pc = "loop"
    /\ fk <= Len(FEATURE_KEYS)
    /\ distance' = DistanceStep(distance, FEATURE_KEYS[fk], track_features, playlist_profile)
    /\ fk' = fk + 1
    /\ UNCHANGED <<track_features, playlist_profile, score, earlier, pc, profileVars, rankVars, restVars>>

\* score = 100.0 * np.exp(-distance / 10.0); return float(np.clip(score, 0.0, 100.0))
ScoreReturn ==
    /\ pc = "loop"
    /\ fk > Len(FEATURE_KEYS)
    /\ score' = ScoreOfDistance(distance)
    /\ pc' = "returned"
    /\ UNCHANGED <<track_features, playlist_profile, fk, distance, earlier, profileVars, rankVars, restVars>>

AbsDiff(track, prof, k) ==
    FAbs(FSub(Get(track, k, FZero), Get(prof.means, k, FZero)))

\* the caller scores the same profile again, one attribute of the track moved
\* to a value at least as far from the mean
ScoreAgain ==
    /\ pc = "returned"
    /\ earlier = None
    /\ \E k \in FKeySet, o \in Offsets \cup {Absent} :
          LET moved == DictWith(track_features, k, ValueAt(playlist_profile, k, o))
          IN  /\ FLeq(AbsDiff(track_features, playlist_profile, k),
                      AbsDiff(moved, playlist_profile, k))
              /\ moved # track_features
              /\ track_features' = moved
    /\ earlier' = [track |-> track_features, score |-> score]
    /\ fk' = 1
    /\ distance' = FZero
    /\ score' = None
    /\ pc' = "loop"
    /\ UNCHANGED <<playlist_profile, profileVars, rankVars, restVars>>

NextScore == ScoreStep \/ ScoreReturn \/ ScoreAgain

SpecScore == InitScore /\ [][NextScore]_vars

(***************************************************************************)
(* Properties of calculate_weighted_distance (under SpecScore).            *)
(***************************************************************************)
F100 == Float(100, 0)

Returned == pc = "returned"

\* the track equals the profile's mean on every one of the 9 attributes
AllEqual ==
    \A k \in FKeySet :
        Get(track_features, k, FZero) = Get(playlist_profile.means, k, FZero)

\* C2: every returned score s satisfies 0 <= s <= 100.
C2_ScoreInRange ==
    Returned => FLeq(FZero, score) /\ FLeq(score, F100)

\* a score strictly inside the range, from a track that differs from the means
C2_Witness ==
    Returned /\ ~AllEqual /\ FLess(FZero, score) /\ FLess(score, F100)

\* C3 as stated: the score is 100 if and only if the track equals the mean
\* on every attribute.
C3_HundredIffEqual ==
    Returned => ((score = F100) <=> AllEqual)

\* the largest distance that can still score 100: below it exp(-distance / 10)
\* rounds to 1.0 (float64: distance / 10 below 2^-53)
RoundingThreshold == Float(1, 1 - Digits)

\* C3 as amended: a track that equals the mean on every attribute scores
\* exactly 100, and a score of 100 is only given to a distance below the
\* rounding threshold (so any larger difference scores strictly below 100).
C3_HundredIfEqualOrTiny ==
    Returned =>
        /\ AllEqual => score = F100
        /\ score = F100 => FLess(distance, RoundingThreshold)
        /\ ~FLess(distance, RoundingThreshold) => FLess(score, F100)

\* both directions occur: an equal track scoring 100 was scored, then an
\* attribute was moved and the score fell below 100
C3_Witness ==
    /\ Returned
    /\ earlier # None
    /\ earlier.score = F100
    /\ \A k \in FKeySet :
          Get(earlier.track, k, FZero) = Get(playlist_profile.means, k, FZero)
    /\ ~AllEqual
    /\ FLess(score, F100)

\* the weight and the squared difference of one attribute, written out
Term(k) ==
    LET std    == IF k \in DOMAIN playlist_profile.stds
                  THEN playlist_profile.stds[k] ELSE Float(1, 0 - 6)
        floor  == IF FLess(std, Float(1, 0 - 6)) THEN Float(1, 0 - 6) ELSE std
        t      == IF k \in DOMAIN track_features THEN track_features[k] ELSE FZero
        mu     == IF k \in DOMAIN playlist_profile.means
                  THEN playlist_profile.means[k] ELSE FZero
    IN  FMul(FDiv(Float(1, 0), floor), FMul(FSub(t, mu), FSub(t, mu)))

NineTermSum ==
    FAdd(FAdd(FAdd(FAdd(FAdd(FAdd(FAdd(FAdd(FAdd(FZero,
        Term("danceability")), Term("energy")), Term("key")), Term("valence")),
        Term("acousticness")), Term("instrumentalness")), Term("liveness")),
        Term("speechiness")), Term("tempo"))

\* an attribute with no spread, or with no std entry at all
NoSpread(k) ==
    k \notin DOMAIN playlist_profile.stds \/ playlist_profile.stds[k] = FZero

\* C4: the distance converted into the score is the sum over the 9 keys of
\* (1 / max(std, 1e-6)) * (track - mean)^2 with absent entries as 0.0; a zero
\* or missing std weighs 1 / 1e-6; attributes outside the 9 keys do not count.
C4_DistanceIsWeightedSum ==
    Returned =>
        /\ distance = NineTermSum
        /\ score = ScoreOfDistance(NineTermSum)
        /\ \A k \in FKeySet :
              NoSpread(k) =>
                  DistanceStep(FZero, k, track_features, playlist_profile)
                      = FMul(Float(1, 6), FMul(AbsDiff(track_features, playlist_profile, k),
                                               AbsDiff(track_features, playlist_profile, k)))
        /\ score = calculate_weighted_distance(
                       [k \in DOMAIN track_features \cap FKeySet |-> track_features[k]],
                       playlist_profile)

\* a track with an attribute outside the 9 keys and a missing attribute, scored
\* on a profile with a missing std where the track is off the mean
C4_Witness ==
    /\ Returned
    /\ "loudness" \in DOMAIN track_features
    /\ \E k \in FKeySet : k \notin DOMAIN track_features
    /\ \E k \in FKeySet :
          /\ k \notin DOMAIN playlist_profile.stds
          /\ AbsDiff(track_features, playlist_profile, k) # FZero
    /\ FLess(FZero, score)

\* C5: moving one attribute of the track further from the mean, the other
\* attributes fixed, never increases the score.
C5_Monotone ==
    (Returned /\ earlier # None) => FLeq(score, earlier.score)

\* a move that strictly lowered the score
C5_Witness ==
    /\ Returned
    /\ earlier # None
    /\ FLess(score, earlier.score)
    /\ FLess(FZero, score)

(***************************************************************************)
(* app/core/exceptions.py and SpotifyService._make_spotify_request         *)
(***************************************************************************)
SpotifyAPIException == [type |-> "SpotifyAPIException", status_code |-> 502]

ResourceNotFoundException == [type |-> "ResourceNotFoundException", status_code |-> 404]

HTTPException(status_code) == [type |-> "HTTPException", status_code |-> status_code]

\* what self.client.request(...) can end in: a response with a status and a
\* body that is JSON or not, or an exception of httpx
RequestOutcomes ==
    {[status_code |-> st, json |-> js] : st \in {200, 401, 429, 500, 503}, js \in BOOLEAN}
    \cup {[error |-> e] : e \in {"ConnectError", "ReadTimeout"}}

\* response.raise_for_status() raises HTTPStatusError
RaisesForStatus(outcome) == outcome.status_code \div 100 # 2

\* faulty variant: only HTTPStatusError is converted, any other exception
\* leaves as it is
_make_spotify_request_StatusOnly(outcome) ==
    IF "error" \in DOMAIN outcome THEN [raises |-> [type |-> outcome.error]]
    ELSE IF RaisesForStatus(outcome) THEN [raises |-> SpotifyAPIException]
    ELSE IF ~outcome.json THEN [raises |-> [type |-> "JSONDecodeError"]]
    ELSE [returns |-> "json"]

\* try: request, raise_for_status, return response.json()
\* except httpx.HTTPStatusError: raise SpotifyAPIException
\* except Exception: raise SpotifyAPIException
_make_spotify_request(outcome) ==
    IF "error" \in DOMAIN outcome THEN [raises |-> SpotifyAPIException]
    ELSE IF RaisesForStatus(outcome) THEN [raises |-> SpotifyAPIException]
    ELSE IF ~outcome.json THEN [raises |-> SpotifyAPIException]
    ELSE [returns |-> "json"]

\* the outcomes for which the call raises
FailedOutcomes == {o \in RequestOutcomes : "raises" \in DOMAIN _make_spotify_request(o)}

(***************************************************************************)
(* SpotifyService.get_playlist_audio_profile                               *)
(***************************************************************************)
\* track_ids: the ids of the items that have a track with an id (a null id is
\* modelled as a track without the key)
CollectTrackIds(items) ==
    LET HasTrackId(item) ==
            Get(item, "track", None) # None /\ "id" \in DOMAIN item["track"]
        kept == SelectSeq(items, HasTrackId)
    IN  [i \in 1..Len(kept) |-> kept[i]["track"]["id"]]

\* faulty variant: the slice runs one id further
BatchIds_OneMore(ids, i) ==
    SubSeq(ids, i + 1,
           IF i + MAX_BATCH_SIZE + 1 < Len(ids) THEN i + MAX_BATCH_SIZE + 1 ELSE Len(ids))

\* track_ids[i:i + MAX_BATCH_SIZE] for the 0-based i of the loop
BatchIds(ids, i) ==
    SubSeq(ids, i + 1, IF i + MAX_BATCH_SIZE < Len(ids) THEN i + MAX_BATCH_SIZE ELSE Len(ids))

\* [f for f in batch_features if f is not None]
NotNone(batch_features) ==
    SelectSeq(batch_features, LAMBDA f : f # None)

\* faulty variant: a missing attribute counts as 1.0
FeatureMatrix_MissingAsOne(data) ==
    [r \in 1..Len(data) |->
        [c \in 1..Len(FEATURE_KEYS) |-> Get(data[r], FEATURE_KEYS[c], Float(1, 0))]]

\* feature_matrix: one row per feature object, one column per FEATURE_KEYS entry
FeatureMatrix(data) ==
    [r \in 1..Len(data) |->
        [c \in 1..Len(FEATURE_KEYS) |-> Get(data[r], FEATURE_KEYS[c], FZero)]]

\* the sum of the first n values of column c, added row after row
RECURSIVE ColumnSum(_, _, _)
ColumnSum(matrix, c, n) ==
    IF n = 1 THEN matrix[1][c]
    ELSE FAdd(ColumnSum(matrix, c, n - 1), matrix[n][c])

\* np.mean(feature_matrix, axis=0)[c]
NpMean(matrix, c) ==
    FDiv(ColumnSum(matrix, c, Len(matrix)), Float(Len(matrix), 0))

\* faulty variant: the sample standard deviation, divisor N - 1 (1 for a single row)
NpStd_Sample(matrix, c) ==
    LET mean == NpMean(matrix, c)
        sq   == [r \in 1..Len(matrix) |->
                    <<FMul(FAbs(FSub(matrix[r][c], mean)), FAbs(FSub(matrix[r][c], mean)))>>]
        n    == IF Len(matrix) > 1 THEN Len(matrix) - 1 ELSE 1
    IN  FSqrt(FDiv(ColumnSum(sq, 1, Len(matrix)), Float(n, 0)))

\* np.std(feature_matrix, axis=0)[c]: sqrt(mean(abs(x - x.mean()) ** 2))
NpStd(matrix, c) ==
    LET mean == NpMean(matrix, c)
        sq   == [r \in 1..Len(matrix) |->
                    <<FMul(FAbs(FSub(matrix[r][c], mean)), FAbs(FSub(matrix[r][c], mean)))>>]
    IN  FSqrt(FDiv(ColumnSum(sq, 1, Len(matrix)), Float(Len(matrix), 0)))

KeyIndex(k) == CHOOSE c \in 1..Len(FEATURE_KEYS) : FEATURE_KEYS[c] = k

\* {"means": dict(zip(FEATURE_KEYS, mean)), "stds": dict(zip(FEATURE_KEYS, std)),
\*  "track_count": len(features_data)}
BuildProfile(data) ==
    LET feature_matrix == FeatureMatrix(data)
    IN  [means |-> [k \in FKeySet |-> NpMean(feature_matrix, KeyIndex(k))],
         stds |-> [k \in FKeySet |-> NpStd(feature_matrix, KeyIndex(k))],
         track_count |-> Len(data)]

(***************************************************************************)
(* Inputs of the profile specification: what Spotify holds for a playlist. *)
(***************************************************************************)
MaxTracks == 6

\* the track of the scenario of the specification
FeaturesScenario == TrackAtMeans(ProfileScenario)

\* values whose multiples are not representable: sums of copies are rounded
FeaturesThirds ==
    [k \in FKeySet |->
        IF k = "key" THEN Float(7, 0)
        ELSE IF k = "tempo" THEN Float(9875, 0 - 2)
        ELSE Float(3333, 0 - 4)]

\* a feature object without most attributes and with one outside the 9 keys
FeaturesPartial ==
    [k \in {"energy", "tempo", "loudness"} |->
        IF k = "energy" THEN Float(2, 0 - 1)
        ELSE IF k = "tempo" THEN Float(140, 0)
        ELSE Float(0 - 7, 0)]

FeatureInputs == {FeaturesScenario, FeaturesThirds, FeaturesPartial}

\* a playlist item is an item without a track, or a track whose audio features
\* are null, or a track with one of the feature objects
ItemKinds == {"no_track", "null_features"} \cup {"scenario", "thirds", "partial"}

FeaturesOfKind(kind) ==
    CASE kind = "scenario" -> FeaturesScenario
      [] kind = "thirds" -> FeaturesThirds
      [] kind = "partial" -> FeaturesPartial
      [] OTHER -> None

ItemOfKind(kind, id) ==
    IF kind = "no_track" THEN [track |-> None] ELSE [track |-> [id |-> id]]

\* the variables of calculate_weighted_distance while no call is running
IdleScore ==
    /\ track_features = <<>>
    /\ playlist_profile = None
    /\ fk = 1
    /\ distance = FZero
    /\ score = None
    /\ earlier = None

(***************************************************************************)
(* The profile specification: one call of get_playlist_audio_profile.      *)
(***************************************************************************)
InitProfile ==
    /\ \E n \in 0..MaxTracks : \E kinds \in [1..n -> ItemKinds] :
          /\ track_items = [i \in 1..n |-> ItemOfKind(kinds[i], i)]
          /\ audio_features = [i \in 1..n |-> FeaturesOfKind(kinds[i])]
    /\ track_ids = <<>>
    /\ batch_start = 0
    /\ features_data = <<>>
    /\ profile = None
    /\ pc = "tracks"
    /\ IdleScore
    /\ IdleRank
    /\ IdleRest

\* track_items = await self._get_paginated_data(tracks_url, access_token), the
\* collection of track_ids and the MIN_TRACKS_FOR_PROFILE gate
FetchTrackItems ==
    /\ pc = "tracks"
    /\ track_ids' = CollectTrackIds(track_items)
    /\ pc' = IF Len(track_ids') < MIN_TRACKS_FOR_PROFILE THEN "returned" ELSE "features"
    /\ UNCHANGED <<track_items, audio_features, batch_start, features_data, profile, scoreVars, rankVars, restVars>>

\* a request of _get_paginated_data fails: SpotifyAPIException propagates
FetchTrackItemsFails ==
    /\ pc = "tracks"
    /\ \E outcome \in FailedOutcomes : raised' = _make_spotify_request(outcome).raises
    /\ pc' = "raised"
    /\ UNCHANGED <<profileVars, scoreVars, rankVars, tags, triageVars, auxVars, requested_ids>>

\* one iteration of the batch loop: the audio-features request of one batch
FetchFeaturesBatch ==
    /\ pc = "features"
    /\ batch_start < Len(track_ids)
    /\ LET batch_ids      == BatchIds(track_ids, batch_start)
           batch_features == [j \in 1..Len(batch_ids) |-> audio_features[batch_ids[j]]]
       IN  /\ features_data' = features_data \o NotNone(batch_features)
           /\ requested_ids' = Append(requested_ids, batch_ids)
    /\ batch_start' = batch_start + MAX_BATCH_SIZE
    /\ UNCHANGED <<track_items, audio_features, track_ids, profile, pc, scoreVars, rankVars,
                   tags, triageVars, auxVars, raised>>

\* the audio-features request fails: SpotifyAPIException propagates
FetchFeaturesBatchFails ==
    /\ pc = "features"
    /\ batch_start < Len(track_ids)
    /\ \E outcome \in FailedOutcomes : raised' = _make_spotify_request(outcome).raises
    /\ requested_ids' = Append(requested_ids, BatchIds(track_ids, batch_start))
    /\ pc' = "raised"
    /\ UNCHANGED <<profileVars, scoreVars, rankVars, tags, triageVars, auxVars>>

\* after the loop: no profile without features, else the statistics
ReturnProfile ==
    /\ pc = "features"
    /\ batch_start >= Len(track_ids)
    /\ profile' = IF features_data = <<>> THEN None ELSE BuildProfile(features_data)
    /\ pc' = "returned"
    /\ UNCHANGED <<track_items, audio_features, track_ids, batch_start, features_data, scoreVars, rankVars, restVars>>

NextProfile ==
    \/ FetchTrackItems
    \/ FetchTrackItemsFails
    \/ FetchFeaturesBatch
    \/ FetchFeaturesBatchFails
    \/ ReturnProfile

SpecProfile == InitProfile /\ [][NextProfile]_vars

(***************************************************************************)
(* Properties of get_playlist_audio_profile (under SpecProfile).           *)
(***************************************************************************)
ProfileReturned == pc = "returned" /\ profile # None

\* the tracks of the playlist for which Spotify has a non-null feature object
UsableCount ==
    Cardinality({i \in 1..Len(track_items) :
                    /\ track_items[i].track # None
                    /\ audio_features[i] # None})

\* C1: a returned profile was built from at least MIN_TRACKS_FOR_PROFILE
\* feature vectors, and with fewer than that many usable feature vectors the
\* call returns None.
C1_ProfileNeedsFiveVectors ==
    /\ ProfileReturned => profile.track_count >= MIN_TRACKS_FOR_PROFILE
    /\ (pc = "returned" /\ UsableCount < MIN_TRACKS_FOR_PROFILE) => profile = None

\* the values of attribute k over the feature vectors, 0.0 where it is missing
ValuesOf(k) ==
    [i \in 1..Len(features_data) |->
        IF k \in DOMAIN features_data[i] THEN features_data[i][k] ELSE FZero]

RECURSIVE SeqSum(_, _)
SeqSum(vals, n) == IF n = 0 THEN FZero ELSE FAdd(SeqSum(vals, n - 1), vals[n])

ArithmeticMean(k) ==
    FDiv(SeqSum(ValuesOf(k), Len(features_data)), Float(Len(features_data), 0))

\* the root of the mean squared deviation from the mean, with divisor N
PopulationStd(k) ==
    LET vals == ValuesOf(k)
        mean == ArithmeticMean(k)
        sq   == [i \in 1..Len(features_data) |->
                    FMul(FSub(vals[i], mean), FSub(vals[i], mean))]
    IN  FSqrt(FDiv(SeqSum(sq, Len(features_data)), Float(Len(features_data), 0)))

\* C9: a profile from N >= 5 feature vectors holds, for each of the 9
\* attributes, the arithmetic mean and the population standard deviation
\* (divisor N) over all N vectors, a missing attribute counting as 0.0.
C9_MeanAndPopulationStd ==
    (ProfileReturned /\ Len(features_data) >= MIN_TRACKS_FOR_PROFILE) =>
        /\ DOMAIN profile.means = FKeySet
        /\ DOMAIN profile.stds = FKeySet
        /\ profile.track_count = Len(features_data)
        /\ \A k \in FKeySet :
              /\ profile.means[k] = ArithmeticMean(k)
              /\ profile.stds[k] = PopulationStd(k)

\* a profile over vectors of which one lacks attributes, with spread on one
\* attribute and none on another
C9_Witness ==
    /\ ProfileReturned
    /\ Len(features_data) >= MIN_TRACKS_FOR_PROFILE
    /\ \E i \in 1..Len(features_data) : "key" \notin DOMAIN features_data[i]
    /\ FLess(FZero, profile.stds["key"])
    /\ FLess(FZero, profile.means["key"])
    /\ profile.stds["instrumentalness"] = FZero

\* the profile was built from N >= 5 copies of one feature vector
IdenticalCopies ==
    /\ ProfileReturned
    /\ Len(features_data) >= MIN_TRACKS_FOR_PROFILE
    /\ \A i \in 1..Len(features_data) : features_data[i] = features_data[1]

\* C10 as stated: the profile of N >= 5 copies of v has mean v and standard
\* deviation 0 on every attribute, and v scores 100 against it.
C10_RoundTripExact ==
    IdenticalCopies =>
        /\ \A k \in FKeySet :
              /\ profile.means[k] = Get(features_data[1], k, FZero)
              /\ profile.stds[k] = FZero
        /\ calculate_weighted_distance(features_data[1], profile) = F100

RECURSIVE StripZeros(_)
StripZeros(a) == IF a # 0 /\ a % 10 = 0 THEN StripZeros(a \div 10) ELSE a

\* every multiple j * x, j <= n, is a float: adding n copies of x rounds nowhere
ExactMultiples(x, n) ==
    \A j \in 1..n : NumDigits(StripZeros(j * Abs(x.m))) <= Digits

\* N units in the last place of x
RoundingError(x, n) == FMul(Float(n, 1 - Digits), FAbs(x))

\* C10 as amended: on every attribute whose multiples up to N are exactly
\* representable the mean is v and the standard deviation is 0, and when that
\* holds on all 9 attributes v scores 100; on the other attributes the mean
\* is within N units in the last place of v and the standard deviation is
\* that small.
C10_RoundTripUpToRounding ==
    IdenticalCopies =>
        LET v == features_data[1]
            n == Len(features_data)
        IN  /\ \A k \in FKeySet :
                  /\ ExactMultiples(Get(v, k, FZero), n) =>
                        /\ profile.means[k] = Get(v, k, FZero)
                        /\ profile.stds[k] = FZero
                  /\ FLeq(FAbs(FSub(profile.means[k], Get(v, k, FZero))),
                          RoundingError(Get(v, k, FZero), n))
                  /\ FLeq(FZero, profile.stds[k])
                  /\ FLeq(profile.stds[k], RoundingError(Get(v, k, FZero), n))
            /\ (\A k \in FKeySet : ExactMultiples(Get(v, k, FZero), n)) =>
                  calculate_weighted_distance(v, profile) = F100

\* copies of a vector that lacks attributes, all of its multiples exact: the
\* profile reproduces it and it scores 100
C10_Witness ==
    /\ IdenticalCopies
    /\ Len(features_data) > MIN_TRACKS_FOR_PROFILE
    /\ "key" \notin DOMAIN features_data[1]
    /\ \A k \in FKeySet : ExactMultiples(Get(features_data[1], k, FZero), Len(features_data))
    /\ FLess(FZero, profile.means["tempo"])
    /\ calculate_weighted_distance(features_data[1], profile) = F100

(***************************************************************************)
(* triage._generate_matching_tags                                          *)
(***************************************************************************)
\* faulty variant: the tag is appended whatever the condition
TagIf_Always(cond, tag) == <<tag>>

TagIf(cond, tag) == IF cond THEN <<tag>> ELSE <<>>

\* faulty variant: the second test of energy and of valence is an independent
\* "if" with the comparison reversed
_generate_matching_tags_Independent(track, prof) ==
    LET energy           == Get(track, "energy", FZero)
        danceability     == Get(track, "danceability", FZero)
        valence          == Get(track, "valence", FZero)
        acousticness     == Get(track, "acousticness", FZero)
        instrumentalness == Get(track, "instrumentalness", FZero)
        profile_stds     == Get(prof, "stds", <<>>)
    IN  TagIf(FLess(Float(7, 0 - 1), energy), "High Energy")
        \o TagIf(FLess(Float(3, 0 - 1), energy), "Low Energy")
        \o TagIf(FLess(Float(7, 0 - 1), danceability), "Very Danceable")
        \o TagIf(FLess(Float(7, 0 - 1), valence), "Positive Mood")
        \o TagIf(FLess(Float(3, 0 - 1), valence), "Melancholic")
        \o TagIf(FLess(Float(6, 0 - 1), acousticness), "Acoustic")
        \o TagIf(FLess(Float(5, 0 - 1), instrumentalness), "Instrumental")
        \o TagIf(FLess(Get(profile_stds, "key", Float(1, 0)), Float(1, 0)), "Consistent Key")
        \o TagIf(FLess(Get(profile_stds, "tempo", Float(50, 0)), Float(20, 0)),
                 "Consistent Tempo")

_generate_matching_tags(track, prof) ==
    LET energy           == Get(track, "energy", FZero)
        danceability     == Get(track, "danceability", FZero)
        valence          == Get(track, "valence", FZero)
        acousticness     == Get(track, "acousticness", FZero)
        instrumentalness == Get(track, "instrumentalness", FZero)
        profile_stds     == Get(prof, "stds", <<>>)
    IN  (IF FLess(Float(7, 0 - 1), energy) THEN <<"High Energy">>
         ELSE IF FLess(energy, Float(3, 0 - 1)) THEN <<"Low Energy">>
         ELSE <<>>)
        \o TagIf(FLess(Float(7, 0 - 1), danceability), "Very Danceable")
        \o (IF FLess(Float(7, 0 - 1), valence) THEN <<"Positive Mood">>
            ELSE IF FLess(valence, Float(3, 0 - 1)) THEN <<"Melancholic">>
            ELSE <<>>)
        \o TagIf(FLess(Float(6, 0 - 1), acousticness), "Acoustic")
        \o TagIf(FLess(Float(5, 0 - 1), instrumentalness), "Instrumental")
        \o TagIf(FLess(Get(profile_stds, "key", Float(1, 0)), Float(1, 0)), "Consistent Key")
        \o TagIf(FLess(Get(profile_stds, "tempo", Float(50, 0)), Float(20, 0)),
                 "Consistent Tempo")

\* a null among the five compared attributes makes a comparison raise TypeError
TagsRaise(track) ==
    \E k \in {"energy", "danceability", "valence", "acousticness", "instrumentalness"} :
        k \in DOMAIN track /\ track[k] = None

(***************************************************************************)
(* triage._generate_playlist_suggestions                                   *)
(***************************************************************************)
\* faulty variant: the entry is named by the playlist id
PlaylistSuggestion_IdAsName(playlist, match_score, matching_tags) ==
    [playlist_id |-> playlist["id"],
     playlist_name |-> playlist["id"],
     match_score |-> match_score,
     matching_tags |-> matching_tags]

\* PlaylistSuggestion(playlist_id=playlist["id"], playlist_name=playlist["name"],
\*                    match_score=score, matching_tags=tags)
PlaylistSuggestion(playlist, match_score, matching_tags) ==
    [playlist_id |-> playlist["id"],
     playlist_name |-> playlist["name"],
     match_score |-> match_score,
     matching_tags |-> matching_tags]

\* a feature value that is null makes the arithmetic of the scorer raise TypeError
ScoringRaises(track) ==
    \E k \in FKeySet : k \in DOMAIN track /\ track[k] = None

\* faulty variant: the exception is raised again
OnException_Propagates == "propagated"

\* except Exception: log and continue with the next playlist
OnException == "loop"

\* faulty variant: an entry is placed before the entries of equal score
RECURSIVE InsertDescending_BeforeTies(_, _)
InsertDescending_BeforeTies(sorted, x) ==
    IF sorted = <<>> THEN <<x>>
    ELSE IF FLeq(Head(sorted).match_score, x.match_score) THEN <<x>> \o sorted
    ELSE <<Head(sorted)>> \o InsertDescending_BeforeTies(Tail(sorted), x)

\* the place of entry x in a list sorted by descending score: behind every
\* entry whose score is not lower
RECURSIVE InsertDescending(_, _)
InsertDescending(sorted, x) ==
    IF sorted = <<>> THEN <<x>>
    ELSE IF FLess(Head(sorted).match_score, x.match_score) THEN <<x>> \o sorted
    ELSE <<Head(sorted)>> \o InsertDescending(Tail(sorted), x)

\* suggestions.sort(key=lambda s: s.match_score, reverse=True)
RECURSIVE SortDescending(_, _)
SortDescending(list, n) ==
    IF n = 0 THEN <<>> ELSE InsertDescending(SortDescending(list, n - 1), list[n])

(***************************************************************************)
(* Inputs of the ranking specification: the user's playlists, what Spotify *)
(* holds for each, and the features of the track to sort.                  *)
(***************************************************************************)
MaxPlaylists == 3

PlaylistInputs ==
    { [id |-> "party", name |-> "Party"],
      [id |-> "party2", name |-> "Party II"],
      [id |-> "mix", name |-> "Mix"],
      [id |-> "few", name |-> "Few"],
      [id |-> "unnamed"],
      [name |-> "No id"] }

\* the kinds of the items of the playlist with the given id
Library(id) ==
    CASE id = "party" -> <<"scenario", "scenario", "scenario", "scenario", "scenario">>
      [] id = "party2" -> <<"scenario", "scenario", "no_track", "scenario", "scenario",
                            "scenario", "scenario">>
      [] id = "mix" -> <<"scenario", "partial", "thirds", "null_features", "scenario",
                         "partial">>
      [] id = "few" -> <<"scenario", "thirds", "no_track", "scenario", "thirds">>
      [] OTHER -> <<"partial", "null_features", "partial", "partial", "null_features">>

\* a track whose energy is null
FeaturesNullEnergy == DictWith(FeaturesScenario, "energy", None)

TrackInputs == {FeaturesScenario, FeaturesPartial, FeaturesNullEnergy}

\* the playlists carry pairwise different ids
DistinctIds(list) ==
    \A i, j \in 1..Len(list) :
        (i # j /\ "id" \in DOMAIN list[i] /\ "id" \in DOMAIN list[j])
            => list[i]["id"] # list[j]["id"]

(***************************************************************************)
(* The ranking specification: one call of _generate_playlist_suggestions,  *)
(* one action from each await to the next.                                 *)
(***************************************************************************)
Init ==
    /\ \E n \in 0..MaxPlaylists : \E list \in [1..n -> PlaylistInputs] :
          /\ DistinctIds(list)
          /\ playlists = list
    /\ track_features \in TrackInputs
    /\ playlist_idx = 1
    /\ suggestions = <<>>
    /\ failed = {}
    /\ pc = "loop"
    /\ playlist_profile = None
    /\ fk = 1
    /\ distance = FZero
    /\ score = None
    /\ earlier = None
    /\ IdleProfile
    /\ IdleRest

\* for playlist in playlists: try: get_playlist_audio_profile(playlist["id"], ...)
\* up to its first request; a playlist without "id" raises KeyError
BeginPlaylist ==
    /\ pc = "loop"
    /\ playlist_idx <= Len(playlists)
    /\ LET playlist == playlists[playlist_idx]
       IN  IF "id" \in DOMAIN playlist
           THEN /\ track_items' = [i \in 1..Len(Library(playlist["id"])) |->
                                      ItemOfKind(Library(playlist["id"])[i], i)]
                /\ audio_features' = [i \in 1..Len(Library(playlist["id"])) |->
                                         FeaturesOfKind(Library(playlist["id"])[i])]
                /\ pc' = "tracks"
                /\ UNCHANGED playlist_idx
           ELSE /\ pc' = OnException
                /\ playlist_idx' = playlist_idx + 1
                /\ UNCHANGED <<track_items, audio_features>>
    /\ UNCHANGED <<track_ids, batch_start, features_data, profile, scoreVars,
                   playlists, suggestions, failed, restVars>>

\* the profile call returned: skip without a profile, else score, tag and append
ProfileDone ==
    /\ pc = "returned"
    /\ playlist_idx >= 1
    /\ LET playlist == playlists[playlist_idx]
       IN  IF profile = None
           THEN \* logger.debug(f"Skipping playlist {playlist['name']} ..."); continue
                /\ pc' = IF "name" \in DOMAIN playlist THEN "loop" ELSE OnException
                /\ UNCHANGED suggestions
           ELSE IF ScoringRaises(track_features) \/ "name" \notin DOMAIN playlist
           THEN /\ pc' = OnException
                /\ UNCHANGED suggestions
           ELSE /\ suggestions' = Append(suggestions,
                      PlaylistSuggestion(playlist,
                          calculate_weighted_distance(track_features, profile),
                          _generate_matching_tags(track_features, profile)))
                /\ pc' = "loop"
    /\ playlist_idx' = playlist_idx + 1
    /\ track_items' = <<>>
    /\ audio_features' = <<>>
    /\ track_ids' = <<>>
    /\ batch_start' = 0
    /\ features_data' = <<>>
    /\ profile' = None
    /\ requested_ids' = <<>>
    /\ UNCHANGED <<scoreVars, playlists, failed, tags, triageVars, auxVars, raised>>

\* the profile call raised SpotifyAPIException: except Exception
ProfileRaised ==
    /\ pc = "raised"
    /\ playlist_idx >= 1
    /\ failed' = failed \cup {playlist_idx}
    /\ pc' = OnException
    /\ raised' = IF OnException = "loop" THEN None ELSE raised
    /\ requested_ids' = <<>>
    /\ playlist_idx' = playlist_idx + 1
    /\ track_items' = <<>>
    /\ audio_features' = <<>>
    /\ track_ids' = <<>>
    /\ batch_start' = 0
    /\ features_data' = <<>>
    /\ profile' = None
    /\ UNCHANGED <<scoreVars, playlists, suggestions, tags, triageVars, auxVars>>

\* after the loop: suggestions.sort(...); return suggestions
SortAndReturn ==
    /\ pc = "loop"
    /\ playlist_idx > Len(playlists)
    /\ suggestions' = SortDescending(suggestions, Len(suggestions))
    /\ pc' = "done"
    /\ UNCHANGED <<scoreVars, profileVars, playlists, playlist_idx, failed, restVars>>

Next ==
    \/ BeginPlaylist
    \/ FetchTrackItems
    \/ FetchTrackItemsFails
    \/ FetchFeaturesBatch
    \/ FetchFeaturesBatchFails
    \/ ReturnProfile
    \/ ProfileDone
    \/ ProfileRaised
    \/ SortAndReturn

Spec == Init /\ [][Next]_vars

(***************************************************************************)
(* Properties of _generate_playlist_suggestions (under Spec).              *)
(***************************************************************************)
Done == pc = "done"

HasKeys(i) == "id" \in DOMAIN playlists[i] /\ "name" \in DOMAIN playlists[i]

\* the position of the playlist with the given id in the input sequence
InputPos(id) ==
    CHOOSE i \in 1..Len(playlists) : "id" \in DOMAIN playlists[i] /\ playlists[i]["id"] = id

\* Spotify holds at least 5 tracks with an id for the playlist and a feature
\* object for at least one of them: the profile call does not return None
YieldsProfile(id) ==
    /\ Cardinality({j \in 1..Len(Library(id)) : Library(id)[j] # "no_track"})
           >= MIN_TRACKS_FOR_PROFILE
    /\ \E j \in 1..Len(Library(id)) : Library(id)[j] \notin {"no_track", "null_features"}

\* playlist i is processed to the end: no request of its profile failed, it
\* has a profile and both keys, and the track can be scored
Completes(i) ==
    /\ HasKeys(i)
    /\ i \notin failed
    /\ YieldsProfile(playlists[i]["id"])
    /\ ~ScoringRaises(track_features)

EntriesOf(id) == {j \in 1..Len(suggestions) : suggestions[j].playlist_id = id}

\* C6: the returned entries are in non-increasing order of match_score, and
\* entries of equal score are in the order of their playlists in the input.
C6_SortedDescendingStable ==
    Done =>
        \A i, j \in 1..Len(suggestions) :
            i < j =>
                /\ ~FLess(suggestions[i].match_score, suggestions[j].match_score)
                /\ suggestions[i].match_score = suggestions[j].match_score
                       => InputPos(suggestions[i].playlist_id)
                              < InputPos(suggestions[j].playlist_id)

\* three entries, the playlist listed first ranked last behind two tied ones
C6_Witness ==
    /\ Done
    /\ Len(suggestions) = 3
    /\ suggestions[1].match_score = suggestions[2].match_score
    /\ FLess(suggestions[3].match_score, suggestions[2].match_score)
    /\ InputPos(suggestions[3].playlist_id) = 1

\* C7: the result holds exactly one entry for each playlist that yields a
\* profile and is processed to the end, none for a playlist whose profile is
\* None, and each entry carries the id and the name of an input playlist.
C7_OneEntryPerProfile ==
    Done =>
        /\ \A i \in 1..Len(playlists) :
              "id" \in DOMAIN playlists[i] =>
                  Cardinality(EntriesOf(playlists[i]["id"])) = IF Completes(i) THEN 1 ELSE 0
        /\ \A j \in 1..Len(suggestions) :
              \E i \in 1..Len(playlists) :
                  /\ Completes(i)
                  /\ suggestions[j].playlist_id = playlists[i]["id"]
                  /\ suggestions[j].playlist_name = playlists[i]["name"]
        /\ Len(suggestions) = Cardinality({i \in 1..Len(playlists) : Completes(i)})

\* 3 playlists, no failure, one of them too small for a profile: 2 entries
C7_Witness ==
    /\ Done
    /\ Len(playlists) = 3
    /\ failed = {}
    /\ \A i \in 1..3 : HasKeys(i)
    /\ Cardinality({i \in 1..3 : YieldsProfile(playlists[i]["id"])}) = 2
    /\ Len(suggestions) = 2

\* C8: an exception while one playlist is processed skips that playlist only:
\* it never leaves the call, the failing playlist has no entry, and every other
\* playlist that is processed to the end has its entry.
C8_FailureSkipsOnePlaylist ==
    /\ pc # "propagated"
    /\ Done =>
          \A i \in 1..Len(playlists) :
              /\ Completes(i) =>
                    \E j \in 1..Len(suggestions) :
                        /\ suggestions[j].playlist_id = playlists[i]["id"]
                        /\ suggestions[j].playlist_name = playlists[i]["name"]
              /\ ("id" \in DOMAIN playlists[i] /\ (i \in failed \/ ~HasKeys(i)))
                    => EntriesOf(playlists[i]["id"]) = {}

\* the request of the second of three playlists failed; the first and the
\* third have their entries
C8_Witness ==
    /\ Done
    /\ Len(playlists) = 3
    /\ failed = {2}
    /\ YieldsProfile(playlists[2]["id"])
    /\ Completes(1)
    /\ Completes(3)
    /\ Len(suggestions) = 2

(***************************************************************************)
(* The tag specification: one call of _generate_matching_tags on a track   *)
(* whose attributes lie on and next to the thresholds.                     *)
(***************************************************************************)
\* energy and valence: absent, null, and values at and beyond 0.3 and 0.7
TwoSidedValues ==
    {Absent, None, Float(299, 0 - 3), Float(3, 0 - 1), Float(7, 0 - 1), Float(701, 0 - 3)}

\* an attribute with one threshold t: absent, t, and the next value above t
OneSidedValues(t) == {Absent, t, FAdd(t, Float(1, 0 - 3))}

TagTracks ==
    {DictWith(DictWith(DictWith(DictWith(DictWith(<<>>,
        "energy", en), "valence", va), "danceability", da), "acousticness", ac),
        "instrumentalness", ins) :
        en \in TwoSidedValues, va \in TwoSidedValues,
        da \in OneSidedValues(Float(7, 0 - 1)),
        ac \in OneSidedValues(Float(6, 0 - 1)),
        ins \in OneSidedValues(Float(5, 0 - 1))}

\* profiles whose stds of key and tempo are absent, below or at the threshold,
\* and a profile without "stds"
TagProfiles ==
    {[means |-> <<>>, stds |-> DictWith(DictWith(<<>>, "key", ks), "tempo", ts),
      track_count |-> 5] :
        ks \in {Absent, Float(999, 0 - 3), Float(1, 0)},
        ts \in {Absent, Float(199, 0 - 1), Float(20, 0)}}
    \cup {[means |-> <<>>, track_count |-> 5]}

InitTags ==
    /\ track_features \in TagTracks
    /\ playlist_profile \in TagProfiles
    /\ tags = None
    /\ IdleTriage
    /\ IdleRequests
    /\ IdleAux
    /\ pc = "tags"
    /\ fk = 1
    /\ distance = FZero
    /\ score = None
    /\ earlier = None
    /\ IdleProfile
    /\ IdleRank

\* tags = _generate_matching_tags(track_features, profile); a comparison with
\* a null attribute raises TypeError
GenerateTags ==
    /\ pc = "tags"
    /\ IF TagsRaise(track_features)
       THEN /\ pc' = "raised"
            /\ UNCHANGED tags
       ELSE /\ tags' = _generate_matching_tags(track_features, playlist_profile)
            /\ pc' = "tagged"
    /\ UNCHANGED <<scoreVars, profileVars, rankVars, triageVars, requestVars, auxVars>>

NextTags == GenerateTags

SpecTags == InitTags /\ [][NextTags]_vars

(***************************************************************************)
(* Properties of _generate_matching_tags (under SpecTags).                 *)
(***************************************************************************)
Tagged == pc = "tagged"

\* the nine tags in the order of the listing
TagOrder ==
    << "High Energy", "Low Energy", "Very Danceable", "Positive Mood", "Melancholic",
       "Acoustic", "Instrumental", "Consistent Key", "Consistent Tempo" >>

\* the value of a track attribute, 0 when the track has none
Attr(track, k) == IF k \in DOMAIN track THEN track[k] ELSE FZero

\* the profile's std of attribute k is known and lies below limit
StdBelow(prof, k, limit) ==
    /\ "stds" \in DOMAIN prof
    /\ k \in DOMAIN prof.stds
    /\ FLess(prof.stds[k], limit)

\* the condition of each tag
TagCondition(tag, track, prof) ==
    CASE tag = "High Energy" -> FLess(Float(7, 0 - 1), Attr(track, "energy"))
      [] tag = "Low Energy" -> FLess(Attr(track, "energy"), Float(3, 0 - 1))
      [] tag = "Very Danceable" -> FLess(Float(7, 0 - 1), Attr(track, "danceability"))
      [] tag = "Positive Mood" -> FLess(Float(7, 0 - 1), Attr(track, "valence"))
      [] tag = "Melancholic" -> FLess(Attr(track, "valence"), Float(3, 0 - 1))
      [] tag = "Acoustic" -> FLess(Float(6, 0 - 1), Attr(track, "acousticness"))
      [] tag = "Instrumental" -> FLess(Float(5, 0 - 1), Attr(track, "instrumentalness"))
      [] tag = "Consistent Key" -> StdBelow(prof, "key", Float(1, 0))
      [] tag = "Consistent Tempo" -> StdBelow(prof, "tempo", Float(20, 0))

\* C11: the returned list holds exactly the tags whose condition holds, each
\* once, in the order of the listing; all comparisons are strict, and the list
\* is empty when no condition holds.
C11_TagsExactlyInOrder ==
    Tagged =>
        tags = SelectSeq(TagOrder,
                         LAMBDA t : TagCondition(t, track_features, playlist_profile))

\* a track without energy (0 by default) and with valence below 0.3, every
\* other attribute exactly on its threshold, key std on and tempo std below
\* the threshold
C11_Witness ==
    /\ Tagged
    /\ "energy" \notin DOMAIN track_features
    /\ Get(track_features, "danceability", FZero) = Float(7, 0 - 1)
    /\ Get(track_features, "acousticness", FZero) = Float(6, 0 - 1)
    /\ Get(track_features, "instrumentalness", FZero) = Float(5, 0 - 1)
    /\ "stds" \in DOMAIN playlist_profile
    /\ Get(playlist_profile.stds, "key", None) = Float(1, 0)
    /\ tags = <<"Low Energy", "Melancholic", "Consistent Tempo">>

TagSet(list) == {list[i] : i \in 1..Len(list)}

\* the two pairs of tags that exclude each other
ExclusivePairs == {{"High Energy", "Low Energy"}, {"Positive Mood", "Melancholic"}}

\* some track and profile of the inputs are tagged with both a and b
OccurTogether(a, b) ==
    \E track \in TagTracks, prof \in TagProfiles :
        /\ ~TagsRaise(track)
        /\ {a, b} \subseteq TagSet(_generate_matching_tags(track, prof))

\* every pair of tags outside the two exclusive pairs occurs together
OtherPairsOccur ==
    \A a, b \in TagSet(TagOrder) :
        (a # b /\ {a, b} \notin ExclusivePairs) => OccurTogether(a, b)

\* C12: the returned list never holds both 'High Energy' and 'Low Energy',
\* never both 'Positive Mood' and 'Melancholic', and no tag twice; every
\* other pair of tags occurs together for some track and profile.
C12_ExclusivePairsOnly ==
    /\ Tagged =>
          /\ \A pair \in ExclusivePairs : ~(pair \subseteq TagSet(tags))
          /\ Cardinality(TagSet(tags)) = Len(tags)
    /\ OtherPairsOccur

\* seven tags at once, one of each exclusive pair
C12_Witness ==
    /\ Tagged
    /\ Len(tags) = 7
    /\ {"Low Energy", "Positive Mood"} \subseteq TagSet(tags)

(***************************************************************************)
(* SpotifyService.get_unassigned_saved_tracks, as called by next_song.     *)
(***************************************************************************)
\* the items of the /tracks listing of the playlist with the given id
PlaylistItems(id) == [i \in 1..Len(Library(id)) |-> ItemOfKind(Library(id)[i], i)]

\* faulty variant: no id of a playlist is collected
AddTrackIds_None(ids, items) == ids

\* faulty variant: the ids of the playlists before are forgotten
AddTrackIds_Forget(ids, items) ==
    {items[i].track["id"] :
        i \in {j \in 1..Len(items) :
                  Get(items[j], "track", None) # None /\ "id" \in DOMAIN items[j].track}}

\* for item in track_items: playlist_track_ids.add(track["id"]) when the item
\* has a track with an id
AddTrackIds(ids, items) ==
    ids \cup {items[i].track["id"] :
                 i \in {j \in 1..Len(items) :
                           Get(items[j], "track", None) # None /\ "id" \in DOMAIN items[j].track}}

\* Artist(id=a["id"], name=a["name"]) and Track(id=..., name=track["name"],
\* uri=track["uri"], artists=artists) raise for a missing key
Parses(track) ==
    /\ {"name", "uri"} \subseteq DOMAIN track
    /\ \A i \in 1..Len(Get(track, "artists", <<>>)) :
          {"id", "name"} \subseteq DOMAIN track["artists"][i]

Track(track) ==
    LET artists == Get(track, "artists", <<>>)
    IN  [id |-> track["id"], name |-> track["name"], uri |-> track["uri"],
         artists |-> [i \in 1..Len(artists) |->
                         [id |-> artists[i]["id"], name |-> artists[i]["name"]]]]

\* the loop over saved_track_items: a track with an id that is not in
\* playlist_track_ids is appended, unless it fails to parse
RECURSIVE FilterUnassigned(_, _)
FilterUnassigned(saved_track_items, ids) ==
    IF saved_track_items = <<>> THEN <<>>
    ELSE LET track == Get(Head(saved_track_items), "track", None)
             rest  == FilterUnassigned(Tail(saved_track_items), ids)
         IN  IF /\ track # None
                /\ "id" \in DOMAIN track
                /\ track["id"] \notin ids
                /\ Parses(track)
             THEN <<Track(track)>> \o rest
             ELSE rest

\* faulty variant: every exception is re-raised
next_song_except_Reraise(e) == e

\* next_song: except (ResourceNotFoundException, SpotifyAPIException): raise
\*            except Exception: raise HTTPException(status_code=500, ...)
next_song_except(e) ==
    IF e.type \in {"ResourceNotFoundException", "SpotifyAPIException"} THEN e
    ELSE HTTPException(500)

\* where the playlist loop stops next, at position i of list: the request of
\* the tracks of playlist i, KeyError for a playlist without "id", or the
\* request of the saved tracks behind the loop
LoopStop(list, i) ==
    IF i > Len(list) THEN "saved"
    ELSE IF "id" \in DOMAIN list[i] THEN "playlist_tracks"
    ELSE "key_error"

\* playlists = await self._get_paginated_data(".../me/playlists", access_token)
ListPlaylists ==
    /\ pc = "playlists"
    /\ sp_playlists' = library.playlists
    /\ sp_idx' = 1
    /\ IF LoopStop(sp_playlists', 1) = "key_error"
       THEN /\ raised' = [type |-> "KeyError"]
            /\ response' = next_song_except(raised')
            /\ pc' = "responded"
       ELSE /\ pc' = LoopStop(sp_playlists', 1)
            /\ UNCHANGED <<response, raised>>
    /\ UNCHANGED <<library, playlist_track_ids, unassigned_tracks, song, tags, requested_ids, auxVars,
                   scoreVars, profileVars, rankVars>>

\* track_items = await self._get_paginated_data(tracks_url, access_token) and
\* the collection of its ids, up to the next request
ListPlaylistTracks ==
    /\ pc = "playlist_tracks"
    /\ playlist_track_ids' =
           AddTrackIds(playlist_track_ids, PlaylistItems(sp_playlists[sp_idx]["id"]))
    /\ sp_idx' = sp_idx + 1
    /\ IF LoopStop(sp_playlists, sp_idx') = "key_error"
       THEN /\ raised' = [type |-> "KeyError"]
            /\ response' = next_song_except(raised')
            /\ pc' = "responded"
       ELSE /\ pc' = LoopStop(sp_playlists, sp_idx')
            /\ UNCHANGED <<response, raised>>
    /\ UNCHANGED <<library, sp_playlists, unassigned_tracks, song, tags, requested_ids, auxVars,
                   scoreVars, profileVars, rankVars>>

\* faulty variant: the song selected is the last of the list
SelectSong_Last(tracks) == tracks[Len(tracks)]

\* song = unassigned_tracks[0]
SelectSong(tracks) == tracks[1]

\* saved_track_items = await self._get_paginated_data(".../me/tracks", ...),
\* the filter, and next_song up to its next request: ResourceNotFoundException
\* for an empty list, else song = unassigned_tracks[0]
ListSaved ==
    /\ pc = "saved"
    /\ unassigned_tracks' = FilterUnassigned(library.saved, playlist_track_ids)
    /\ IF unassigned_tracks' = <<>>
       THEN /\ raised' = ResourceNotFoundException
            /\ response' = next_song_except(raised')
            /\ pc' = "responded"
            /\ UNCHANGED song
       ELSE /\ song' = SelectSong(unassigned_tracks')
            /\ pc' = "user_playlists"
            /\ UNCHANGED <<response, raised>>
    /\ UNCHANGED <<library, sp_playlists, sp_idx, playlist_track_ids, tags, requested_ids, auxVars,
                   scoreVars, profileVars, rankVars>>

\* a request of get_unassigned_saved_tracks fails: SpotifyAPIException leaves
\* the service and next_song
UnassignedRequestFails ==
    /\ pc \in {"playlists", "playlist_tracks", "saved"}
    /\ \E outcome \in FailedOutcomes : raised' = _make_spotify_request(outcome).raises
    /\ response' = next_song_except(raised')
    /\ pc' = "responded"
    /\ UNCHANGED <<library, sp_playlists, sp_idx, playlist_track_ids, unassigned_tracks,
                   song, tags, requested_ids, auxVars, scoreVars, profileVars, rankVars>>

(***************************************************************************)
(* Inputs: what Spotify holds for the user.                                *)
(***************************************************************************)
MaxSaved == 3

Playlist(id) == CHOOSE p \in PlaylistInputs : "id" \in DOMAIN p /\ p["id"] = id

\* the playlist listings of the user
LibraryPlaylists ==
    { <<>>,
      <<Playlist("few")>>,
      <<Playlist("mix"), Playlist("few")>>,
      <<Playlist("party"), Playlist("unnamed")>>,
      <<Playlist("few"), [name |-> "No id"]>> }

SavedTrack(id) ==
    [track |-> [id |-> id, name |-> "Song", uri |-> "spotify:track", album |-> "Album",
                artists |-> <<[id |-> "a", name |-> "Artist", href |-> "h"]>>]]

\* saved items: tracks 3, 8 and 9, a track that does not parse (no uri, an
\* artist without name), an item without track, and a track without id
SavedItems ==
    { SavedTrack(3), SavedTrack(8), SavedTrack(9),
      [track |-> [id |-> 7, name |-> "Song", artists |-> <<[id |-> "a"]>>]],
      [track |-> None],
      [track |-> [name |-> "Local file", uri |-> "spotify:local", artists |-> <<>>]] }

(***************************************************************************)
(* The unassigned-tracks specification: next_song up to the return of      *)
(* get_unassigned_saved_tracks, one action per listing.                    *)
(***************************************************************************)
InitUnassigned ==
    /\ \E n \in 0..MaxSaved : \E saved \in [1..n -> SavedItems] :
          \E lists \in LibraryPlaylists :
              library = [playlists |-> lists, saved |-> saved]
    /\ sp_playlists = <<>>
    /\ sp_idx = 0
    /\ playlist_track_ids = {}
    /\ unassigned_tracks = <<>>
    /\ song = None
    /\ response = None
    /\ pc = "playlists"
    /\ IdleRequests
    /\ IdleAux
    /\ IdleTags
    /\ IdleScore
    /\ IdleProfile
    /\ IdleRank

NextUnassigned ==
    \/ ListPlaylists
    \/ ListPlaylistTracks
    \/ ListSaved
    \/ UnassignedRequestFails

SpecUnassigned == InitUnassigned /\ [][NextUnassigned]_vars

(***************************************************************************)
(* Properties of get_unassigned_saved_tracks (under SpecUnassigned).       *)
(***************************************************************************)
\* get_unassigned_saved_tracks has returned: next_song has its song, or
\* answers that there is none
UnassignedReturned == song # None \/ response = ResourceNotFoundException

\* the ids of the tracks listed in any playlist of the user
IdsInPlaylists ==
    UNION { {PlaylistItems(library.playlists[p]["id"])[i].track["id"] :
                i \in {j \in 1..Len(PlaylistItems(library.playlists[p]["id"])) :
                          PlaylistItems(library.playlists[p]["id"])[j].track # None}} :
            p \in {q \in 1..Len(library.playlists) : "id" \in DOMAIN library.playlists[q]} }

\* a saved item that holds a parseable track with an id that is in no playlist
IsUnassigned(item) ==
    /\ item.track # None
    /\ "id" \in DOMAIN item.track
    /\ item.track["id"] \notin IdsInPlaylists
    /\ Parses(item.track)

\* C13: the returned tracks are exactly the parseable saved tracks with an id
\* that is in no playlist of the user, in the order of the saved listing: no
\* returned id is in a playlist and none of those saved tracks is left out.
C13_ExactlyUnassignedInOrder ==
    UnassignedReturned =>
        LET wanted == SelectSeq(library.saved, IsUnassigned)
        IN  /\ \A i \in 1..Len(unassigned_tracks) :
                  unassigned_tracks[i].id \notin IdsInPlaylists
            /\ Len(unassigned_tracks) = Len(wanted)
            /\ \A i \in 1..Len(wanted) :
                  /\ unassigned_tracks[i].id = wanted[i].track["id"]
                  /\ unassigned_tracks[i].name = wanted[i].track["name"]
                  /\ unassigned_tracks[i].uri = wanted[i].track["uri"]

\* two playlists, the first holding track 3: of the saved tracks 9, 3, 8 the
\* tracks 9 and 8 are returned in this order
C13_Witness ==
    /\ UnassignedReturned
    /\ Len(library.playlists) = 2
    /\ 3 \in IdsInPlaylists
    /\ Len(library.saved) = 3
    /\ library.saved[2] = SavedTrack(3)
    /\ Len(unassigned_tracks) = 2
    /\ unassigned_tracks[1].id = 9
    /\ unassigned_tracks[2].id = 8

(***************************************************************************)
(* triage.next_song behind get_unassigned_saved_tracks.                    *)
(***************************************************************************)
\* _get_user_playlists and _get_track_audio_features: client.get,
\* raise_for_status, response.json(); only httpx.HTTPStatusError is turned
\* into SpotifyAPIException
ClientGet(outcome) ==
    IF "error" \in DOMAIN outcome THEN [raises |-> [type |-> outcome.error]]
    ELSE IF RaisesForStatus(outcome) THEN [raises |-> SpotifyAPIException]
    ELSE IF ~outcome.json THEN [raises |-> [type |-> "JSONDecodeError"]]
    ELSE [returns |-> "json"]

\* the audio-features object Spotify holds for the track with the given id
SongFeatures(id) ==
    CASE id = 8 -> FeaturesScenario
      [] id = 9 -> FeaturesPartial
      [] OTHER -> FeaturesNullEnergy

\* faulty variant: an empty suggestion list is answered with "not found"
TriageResponse_NotFoundWhenEmpty(song_to_sort, suggestion_list) ==
    IF suggestion_list = <<>> THEN ResourceNotFoundException
    ELSE [status_code |-> 200, song_to_sort |-> song_to_sort, suggestions |-> suggestion_list]

\* return TriageResponse(song_to_sort=song, suggestions=suggestions)
TriageResponse(song_to_sort, suggestion_list) ==
    [status_code |-> 200, song_to_sort |-> song_to_sort, suggestions |-> suggestion_list]

\* playlists = await _get_user_playlists(client, access_token)
GetUserPlaylists ==
    /\ pc = "user_playlists"
    /\ playlists' = library.playlists
    /\ pc' = "track_features"
    /\ UNCHANGED <<playlist_idx, suggestions, failed, scoreVars, profileVars, restVars>>

\* track_features = await _get_track_audio_features(client, song.id, access_token)
\* and the start of _generate_playlist_suggestions: suggestions = []
GetTrackFeatures ==
    /\ pc = "track_features"
    /\ track_features' = SongFeatures(song.id)
    /\ suggestions' = <<>>
    /\ playlist_idx' = 1
    /\ pc' = "loop"
    /\ UNCHANGED <<playlist_profile, fk, distance, score, earlier, playlists, failed,
                   profileVars, restVars>>

\* a request of _get_user_playlists or _get_track_audio_features fails, and
\* next_song's except clauses
ClientGetFails ==
    /\ pc \in {"user_playlists", "track_features"}
    /\ \E outcome \in {o \in RequestOutcomes : "raises" \in DOMAIN ClientGet(o)} :
          raised' = ClientGet(outcome).raises
    /\ response' = next_song_except(raised')
    /\ pc' = "responded"
    /\ UNCHANGED <<library, sp_playlists, sp_idx, playlist_track_ids, unassigned_tracks,
                   song, tags, requested_ids, auxVars, scoreVars, profileVars, rankVars>>

\* _generate_playlist_suggestions has returned to next_song
Respond ==
    /\ pc = "done"
    /\ song # None
    /\ response' = TriageResponse(song, suggestions)
    /\ pc' = "responded"
    /\ UNCHANGED <<library, sp_playlists, sp_idx, playlist_track_ids, unassigned_tracks,
                   song, tags, requestVars, auxVars, scoreVars, profileVars, rankVars>>

\* the saved-tracks listings of the requests that are followed to the end
TriageSaved ==
    { <<>>,
      <<SavedTrack(8)>>,
      <<SavedTrack(9)>>,
      <<[track |-> None], SavedTrack(3)>>,
      <<SavedTrack(3), SavedTrack(9), SavedTrack(8)>> }

(***************************************************************************)
(* The triage specification: one request GET /triage/next, one action from *)
(* each request to Spotify to the next.                                    *)
(***************************************************************************)
InitTriage ==
    /\ \E lists \in LibraryPlaylists, saved \in TriageSaved :
          library = [playlists |-> lists, saved |-> saved]
    /\ sp_playlists = <<>>
    /\ sp_idx = 0
    /\ playlist_track_ids = {}
    /\ unassigned_tracks = <<>>
    /\ song = None
    /\ response = None
    /\ pc = "playlists"
    /\ IdleRequests
    /\ IdleAux
    /\ IdleTags
    /\ IdleScore
    /\ IdleProfile
    /\ IdleRank

NextTriage ==
    \/ ListPlaylists
    \/ ListPlaylistTracks
    \/ ListSaved
    \/ UnassignedRequestFails
    \/ GetUserPlaylists
    \/ GetTrackFeatures
    \/ ClientGetFails
    \/ BeginPlaylist
    \/ FetchTrackItems
    \/ FetchTrackItemsFails
    \/ FetchFeaturesBatch
    \/ FetchFeaturesBatchFails
    \/ ReturnProfile
    \/ ProfileDone
    \/ ProfileRaised
    \/ SortAndReturn
    \/ Respond

SpecTriage == InitTriage /\ [][NextTriage]_vars

(***************************************************************************)
(* Properties of next_song (under SpecTriage).                             *)
(***************************************************************************)
\* the ranking pass of the request has returned
Ranked == pc \in {"done", "responded"} /\ playlist_idx >= 1

NoPlaylistCompletes == \A i \in 1..Len(playlists) : ~Completes(i)

\* C14: when no playlist yields a profile and is processed to the end, the
\* ranking pass returns the empty list and next_song answers with status 200,
\* the song selected and no suggestions.
C14_EmptySuggestionsSucceed ==
    (Ranked /\ NoPlaylistCompletes) =>
        /\ suggestions = <<>>
        /\ pc = "responded" =>
              response = [status_code |-> 200, song_to_sort |-> song, suggestions |-> <<>>]
        /\ song = FilterUnassigned(library.saved, playlist_track_ids)[1]

\* two playlists, the profile request of the first failed and the second has
\* too few tracks: the request is answered with the song and no suggestions
C14_Witness ==
    /\ pc = "responded"
    /\ Len(playlists) = 2
    /\ failed = {1}
    /\ YieldsProfile(playlists[1]["id"])
    /\ ~YieldsProfile(playlists[2]["id"])
    /\ response = [status_code |-> 200, song_to_sort |-> song, suggestions |-> <<>>]

(***************************************************************************)
(* The batching specification: get_playlist_audio_profile on playlists of  *)
(* more than MAX_BATCH_SIZE tracks.                                        *)
(***************************************************************************)
MaxPlaylistTracks == 202

\* a long playlist: the third item has no track, Spotify has features for
\* every 40th track
LongPlaylistKind(i) ==
    IF i = 3 THEN "no_track" ELSE IF i % 40 = 1 THEN "scenario" ELSE "null_features"

InitBatch ==
    /\ \E n \in 0..MaxPlaylistTracks :
          /\ track_items = [i \in 1..n |-> ItemOfKind(LongPlaylistKind(i), i)]
          /\ audio_features = [i \in 1..n |-> FeaturesOfKind(LongPlaylistKind(i))]
    /\ track_ids = <<>>
    /\ batch_start = 0
    /\ features_data = <<>>
    /\ profile = None
    /\ pc = "tracks"
    /\ IdleScore
    /\ IdleRank
    /\ IdleRest

SpecBatch == InitBatch /\ [][NextProfile]_vars

(***************************************************************************)
(* Properties of the batch loop (under SpecBatch).                         *)
(***************************************************************************)
\* the batches one behind the other
RECURSIVE Concat(_)
Concat(seqs) == IF seqs = <<>> THEN <<>> ELSE Head(seqs) \o Concat(Tail(seqs))

\* C15: every audio-features request carries between 1 and MAX_BATCH_SIZE ids,
\* the batches in request order are the track id list up to the position of
\* the loop, and the whole list once the call has returned: no id is dropped
\* or repeated.
C15_BatchesPartitionIds ==
    /\ \A b \in 1..Len(requested_ids) :
          /\ Len(requested_ids[b]) >= 1
          /\ Len(requested_ids[b]) <= MAX_BATCH_SIZE
    /\ Concat(requested_ids) = SubSeq(track_ids, 1, Len(Concat(requested_ids)))
    /\ (pc = "returned" /\ Len(track_ids) >= MIN_TRACKS_FOR_PROFILE)
          => Concat(requested_ids) = track_ids

\* a profile of a playlist whose ids went out in three requests, the last one
\* shorter than the others
C15_Witness ==
    /\ pc = "returned"
    /\ profile # None
    /\ Len(requested_ids) = 3
    /\ Len(requested_ids[1]) = MAX_BATCH_SIZE
    /\ Len(requested_ids[3]) < MAX_BATCH_SIZE
    /\ Len(features_data) < Len(track_ids)

(***************************************************************************)
(* Properties of _make_spotify_request (under SpecProfile).                *)
(***************************************************************************)
\* the request ended in a 2xx response whose body is JSON
Succeeds(outcome) ==
    /\ "status_code" \in DOMAIN outcome
    /\ outcome.status_code \in 200..299
    /\ outcome.json

\* C16: _make_spotify_request returns the parsed body of a successful request
\* and raises SpotifyAPIException for every error status and every other
\* exception; the exception that leaves a failed call of the profile is a
\* SpotifyAPIException, and no profile is built from a failed request.
C16_FailuresAreSpotifyAPIException ==
    /\ \A o \in RequestOutcomes :
          _make_spotify_request(o) =
              IF Succeeds(o) THEN [returns |-> "json"] ELSE [raises |-> SpotifyAPIException]
    /\ pc = "raised" =>
          /\ raised = SpotifyAPIException
          /\ profile = None
    /\ pc # "raised" => raised = None

\* the audio-features request of a playlist of at least 5 tracks failed
C16_Witness ==
    /\ pc = "raised"
    /\ raised = SpotifyAPIException
    /\ Len(track_ids) >= MIN_TRACKS_FOR_PROFILE
    /\ Len(requested_ids) = 1
    /\ features_data = <<>>

(***************************************************************************)
(* Several requests GET /triage/next served at the same time: the calls of *)
(* _generate_playlist_suggestions interleave at their awaits.  Each call   *)
(* has its own SpotifyService (get_spotify_service builds one per request) *)
(* and its own locals; the module holds no other mutable object.           *)
(***************************************************************************)
MaxPasses == 2

\* what get_playlist_audio_profile(id, ...) returns when no request fails
PlaylistProfile(id) ==
    LET ids   == CollectTrackIds(PlaylistItems(id))
        feats == NotNone([j \in 1..Len(ids) |-> FeaturesOfKind(Library(id)[ids[j]])])
    IN  IF Len(ids) < MIN_TRACKS_FOR_PROFILE THEN None
        ELSE IF Len(feats) = 0 THEN None
        ELSE BuildProfile(feats)

\* get_playlist_audio_profile on each playlist of the user
ProfileOf ==
    [id \in {p["id"] : p \in {q \in PlaylistInputs : "id" \in DOMAIN q}} |->
        PlaylistProfile(id)]

\* the arguments of a pass, and the positions of the playlists whose profile
\* requests Spotify fails
PassInputs ==
    { [playlists |-> <<Playlist("party"), Playlist("mix")>>,
       track_features |-> FeaturesScenario, fails |-> {}],
      [playlists |-> <<Playlist("mix"), Playlist("party")>>,
       track_features |-> FeaturesPartial, fails |-> {1}],
      [playlists |-> <<Playlist("few"), Playlist("party")>>,
       track_features |-> FeaturesPartial, fails |-> {}],
      [playlists |-> <<Playlist("unnamed"), [name |-> "No id"]>>,
       track_features |-> FeaturesNullEnergy, fails |-> {}] }

\* faulty variant: the list of suggestions is one object shared by all passes
AppendSuggestion_Shared(all, r, entry) ==
    [q \in DOMAIN all |-> [all[q] EXCEPT !.suggestions = Append(@, entry)]]

\* suggestions.append(PlaylistSuggestion(...)) on the list of pass r
AppendSuggestion(all, r, entry) ==
    [all EXCEPT ![r].suggestions = Append(@, entry)]

\* pass r reaches "profile = await spotify_service.get_playlist_audio_profile(
\* playlist["id"], access_token)"; KeyError for a playlist without "id"
PassCall(r) ==
    /\ pc = "passes"
    /\ passes[r].pc = "loop"
    /\ passes[r].idx <= Len(passes[r].playlists)
    /\ passes' = IF "id" \in DOMAIN passes[r].playlists[passes[r].idx]
                 THEN [passes EXCEPT ![r].pc = "await"]
                 ELSE [passes EXCEPT ![r].idx = @ + 1]
    /\ UNCHANGED <<pc, coreVars, healthVars, configVars, authVars, flowVars>>

\* the profile call of pass r returns or raises, and the pass runs on to the
\* next call: skip, or score, tag and append
PassResume(r) ==
    /\ pc = "passes"
    /\ passes[r].pc = "await"
    /\ LET p        == passes[r]
           playlist == p.playlists[p.idx]
           prof     == ProfileOf[playlist["id"]]
           next     == [passes EXCEPT ![r].idx = @ + 1, ![r].pc = "loop"]
       IN  IF \/ p.idx \in p.fails
              \/ prof = None
              \/ ScoringRaises(p.track_features)
              \/ "name" \notin DOMAIN playlist
           THEN passes' = next
           ELSE passes' = AppendSuggestion(next, r,
                              PlaylistSuggestion(playlist,
                                  calculate_weighted_distance(p.track_features, prof),
                                  _generate_matching_tags(p.track_features, prof)))
    /\ UNCHANGED <<pc, coreVars, healthVars, configVars, authVars, flowVars>>

\* behind the loop of pass r: suggestions.sort(...); return suggestions
PassReturn(r) ==
    /\ pc = "passes"
    /\ passes[r].pc = "loop"
    /\ passes[r].idx > Len(passes[r].playlists)
    /\ passes' = [passes EXCEPT
                     ![r].suggestions = SortDescending(@, Len(@)),
                     ![r].pc = "done"]
    /\ UNCHANGED <<pc, coreVars, healthVars, configVars, authVars, flowVars>>

InitConcurrent ==
    /\ \E inputs \in [1..MaxPasses -> PassInputs] :
          passes = [r \in 1..MaxPasses |->
                       [playlists |-> inputs[r].playlists,
                        track_features |-> inputs[r].track_features,
                        fails |-> inputs[r].fails,
                        idx |-> 1, suggestions |-> <<>>, pc |-> "loop"]]
    /\ pc = "passes"
    /\ IdleScore
    /\ IdleProfile
    /\ IdleRank
    /\ IdleTags
    /\ IdleTriage
    /\ IdleRequests
    /\ IdleHealth
    /\ IdleConfig
    /\ IdleAuth
    /\ IdleFlows

NextConcurrent ==
    \/ \E r \in DOMAIN passes : PassCall(r)
    \/ \E r \in DOMAIN passes : PassResume(r)
    \/ \E r \in DOMAIN passes : PassReturn(r)

SpecConcurrent == InitConcurrent /\ [][NextConcurrent]_vars

(***************************************************************************)
(* Properties of interleaved ranking passes (under SpecConcurrent).        *)
(***************************************************************************)
\* the entries a pass alone appends for its first n playlists
RECURSIVE EntriesAlone(_, _)
EntriesAlone(p, n) ==
    IF n = 0 THEN <<>>
    ELSE LET playlist == p.playlists[n]
             before   == EntriesAlone(p, n - 1)
         IN  IF /\ {"id", "name"} \subseteq DOMAIN playlist
                /\ n \notin p.fails
                /\ ProfileOf[playlist["id"]] # None
                /\ ~ScoringRaises(p.track_features)
             THEN Append(before,
                      [playlist_id |-> playlist["id"],
                       playlist_name |-> playlist["name"],
                       match_score |-> calculate_weighted_distance(
                                           p.track_features, ProfileOf[playlist["id"]]),
                       matching_tags |-> _generate_matching_tags(
                                             p.track_features, ProfileOf[playlist["id"]])])
             ELSE before

\* what the pass returns when it runs alone on the same arguments and the
\* same responses
ResultAlone(p) ==
    LET entries == EntriesAlone(p, Len(p.playlists))
    IN  SortDescending(entries, Len(entries))

\* C17: no step of any pass changes the playlists or the track features of a
\* pass, a step of one pass leaves every other pass as it is, and every pass
\* that has returned holds the list it would return alone.
C17_PassesAreIndependent ==
    /\ []( \A r \in DOMAIN passes :
              passes[r].pc = "done" => passes[r].suggestions = ResultAlone(passes[r]) )
    /\ [][ /\ \A r \in DOMAIN passes :
                 /\ passes'[r].playlists = passes[r].playlists
                 /\ passes'[r].track_features = passes[r].track_features
           /\ Cardinality({r \in DOMAIN passes : passes'[r] # passes[r]}) <= 1 ]_vars

\* the first pass has returned two entries while the second, ranking the same
\* playlists, is waiting for its second profile with one entry appended
C17_Witness ==
    /\ pc = "passes"
    /\ passes[1].pc = "done"
    /\ Len(passes[1].suggestions) = 2
    /\ passes[2].pc = "await"
    /\ Len(passes[2].suggestions) = 1
    /\ passes[2].idx = 2
    /\ passes[2].playlists = passes[1].playlists

(***************************************************************************)
(* The health endpoints (app/routers/health.py).  The timestamp of a       *)
(* response and the response_time_ms and message of a check are left out.  *)
(***************************************************************************)
MaxProbes == 3

\* Settings: the defaults of APP_VERSION and ENVIRONMENT
APP_VERSION == "0.1.0"

ENVIRONMENT == "development"

\* what client.get("https://api.spotify.com/v1/browse/categories") meets
SpotifyStates == {"status_200", "status_401", "status_503", "timeout", "connect_error"}

\* a handler's return value as FastAPI sends it
Ok(body) == [status_code |-> 200, body |-> body]

\* _check_spotify_api(client) on the API as it is now
_check_spotify_api ==
    IF spotify_api = "status_401" THEN [status |-> "healthy"]
    ELSE IF spotify_api = "status_200" THEN [status |-> "healthy"]
    ELSE IF spotify_api = "status_503" THEN [status |-> "degraded"]
    ELSE [status |-> "unhealthy"]

\* _check_basic_functionality(): Artist(...) and Track(...) are built
_check_basic_functionality == [status |-> "healthy"]

\* faulty variant: the basic endpoint reports the state of the Spotify API
health_check_Probing ==
    Ok([status |-> IF _check_spotify_api.status # "healthy" THEN "degraded" ELSE "healthy",
        version |-> APP_VERSION,
        environment |-> ENVIRONMENT,
        checks |-> <<>>])

\* GET /health/
health_check ==
    Ok([status |-> "healthy",
        version |-> APP_VERSION,
        environment |-> ENVIRONMENT,
        checks |-> <<>>])

\* GET /health/detailed
detailed_health_check ==
    LET spotify_check       == _check_spotify_api
        functionality_check == _check_basic_functionality
        degraded == IF spotify_check.status # "healthy" THEN "degraded" ELSE "healthy"
        overall_status ==
            IF functionality_check.status # "healthy" THEN "unhealthy" ELSE degraded
    IN  Ok([status |-> overall_status,
            version |-> APP_VERSION,
            environment |-> ENVIRONMENT,
            checks |-> [spotify_api |-> spotify_check,
                        basic_functionality |-> functionality_check]])

\* GET /health/ready
readiness_check == Ok([status |-> "ready", environment |-> ENVIRONMENT])

\* GET /health/live
liveness_check == Ok([status |-> "alive"])

\* the endpoint at path answers; the entry keeps the state of the API met
Serve(path, answer) ==
    /\ pc = "health"
    /\ Len(served) < MaxProbes
    /\ served' = Append(served, [path |-> path, api |-> spotify_api, response |-> answer])
    /\ UNCHANGED <<pc, spotify_api, coreVars, passes, configVars, authVars, flowVars>>

HealthCheck == Serve("/health/", health_check)

DetailedHealthCheck == Serve("/health/detailed", detailed_health_check)

ReadinessCheck == Serve("/health/ready", readiness_check)

LivenessCheck == Serve("/health/live", liveness_check)

\* the Spotify API becomes reachable, unreachable, or answers differently
SpotifyChanges ==
    /\ pc = "health"
    /\ \E api \in SpotifyStates \ {spotify_api} : spotify_api' = api
    /\ UNCHANGED <<pc, served, coreVars, passes, configVars, authVars, flowVars>>

InitHealth ==
    /\ spotify_api \in SpotifyStates
    /\ served = <<>>
    /\ pc = "health"
    /\ passes = <<>>
    /\ IdleScore
    /\ IdleProfile
    /\ IdleRank
    /\ IdleTags
    /\ IdleTriage
    /\ IdleRequests
    /\ IdleConfig
    /\ IdleAuth
    /\ IdleFlows

NextHealth ==
    \/ HealthCheck
    \/ DetailedHealthCheck
    \/ ReadinessCheck
    \/ LivenessCheck
    \/ SpotifyChanges

SpecHealth == InitHealth /\ [][NextHealth]_vars

(***************************************************************************)
(* Properties of the basic probes (under SpecHealth).                      *)
(***************************************************************************)
\* the responses served at path
ServedAt(path) == {served[i] : i \in {j \in 1..Len(served) : served[j].path = path}}

\* the API states in which a request gets no answer, or an answer of failure
Unreachable == {"status_503", "timeout", "connect_error"}

\* C18: every response of GET /health/ is 200 with status "healthy" and an
\* empty checks map, every response of GET /health/ready is 200 with status
\* "ready", and every response of GET /health/live is 200 with status
\* "alive", in whatever state the Spotify API was when the probe was served.
C18_BasicProbesIgnoreSpotify ==
    /\ \A e \in ServedAt("/health/") :
          /\ e.response.status_code = 200
          /\ e.response.body.status = "healthy"
          /\ DOMAIN e.response.body.checks = {}
    /\ \A e \in ServedAt("/health/ready") :
          /\ e.response.status_code = 200
          /\ e.response.body.status = "ready"
    /\ \A e \in ServedAt("/health/live") :
          /\ e.response.status_code = 200
          /\ e.response.body.status = "alive"

\* the three basic probes have each been served while the API was unreachable
C18_Witness ==
    /\ pc = "health"
    /\ \A path \in {"/health/", "/health/ready", "/health/live"} :
          \E e \in ServedAt(path) : e.api \in Unreachable

(***************************************************************************)
(* Settings (app/core/config.py): the validation of LOG_LEVEL.  A str is a *)
(* sequence of characters; "sharp_s" and "dotless_i" stand for the         *)
(* characters U+00DF and U+0131.  The required settings are present.       *)
(***************************************************************************)
LowerLetters ==
    <<"a", "b", "c", "d", "e", "f", "g", "h", "i", "j", "k", "l", "m",
      "n", "o", "p", "q", "r", "s", "t", "u", "v", "w", "x", "y", "z">>

UpperLetters ==
    <<"A", "B", "C", "D", "E", "F", "G", "H", "I", "J", "K", "L", "M",
      "N", "O", "P", "Q", "R", "S", "T", "U", "V", "W", "X", "Y", "Z">>

\* the upper-case mapping of one character: a str of one or two characters
UpperOf(c) ==
    IF \E i \in 1..Len(LowerLetters) : LowerLetters[i] = c
    THEN <<UpperLetters[CHOOSE i \in 1..Len(LowerLetters) : LowerLetters[i] = c]>>
    ELSE IF c = "sharp_s" THEN <<"S", "S">>
    ELSE IF c = "dotless_i" THEN <<"I">>
    ELSE <<c>>

\* str.upper()
RECURSIVE upper(_)
upper(v) == IF v = <<>> THEN <<>> ELSE UpperOf(Head(v)) \o upper(Tail(v))

\* valid_levels = ["DEBUG", "INFO", "WARNING", "ERROR", "CRITICAL"]
valid_levels ==
    << <<"D", "E", "B", "U", "G">>,
       <<"I", "N", "F", "O">>,
       <<"W", "A", "R", "N", "I", "N", "G">>,
       <<"E", "R", "R", "O", "R">>,
       <<"C", "R", "I", "T", "I", "C", "A", "L">> >>

\* x in list
In(x, list) == \E i \in 1..Len(list) : list[i] = x

\* faulty variant: an accepted value is stored as given
validate_log_level_AsGiven(v) ==
    IF ~In(upper(v), valid_levels) THEN [raises |-> "ValueError"]
    ELSE [returns |-> v]

\* Settings.validate_log_level(v)
validate_log_level(v) ==
    IF ~In(upper(v), valid_levels) THEN [raises |-> "ValueError"]
    ELSE [returns |-> upper(v)]

\* pydantic's error for a field whose validator raised ValueError
ValidationError == [type |-> "ValidationError", field |-> "LOG_LEVEL"]

\* Settings(): LOG_LEVEL from the environment is validated; the default
\* "INFO" is taken as it is
GetSettings ==
    /\ pc = "config"
    /\ settings' =
          IF "LOG_LEVEL" \notin DOMAIN environ
          THEN [LOG_LEVEL |-> <<"I", "N", "F", "O">>]
          ELSE LET result == validate_log_level(environ["LOG_LEVEL"])
               IN  IF "raises" \in DOMAIN result THEN ValidationError
                   ELSE [LOG_LEVEL |-> result.returns]
    /\ pc' = "configured"
    /\ UNCHANGED <<environ, coreVars, passes, healthVars, authVars, flowVars>>

(***************************************************************************)
(* The values of LOG_LEVEL tried: every spelling of the five names in      *)
(* upper and lower case letters, and values that are no level.             *)
(***************************************************************************)
LowerOf(c) == LowerLetters[CHOOSE i \in 1..Len(UpperLetters) : UpperLetters[i] = c]

RECURSIVE Spellings(_)
Spellings(name) ==
    IF name = <<>> THEN {<<>>}
    ELSE {<<c>> \o rest : c \in {Head(name), LowerOf(Head(name))},
                          rest \in Spellings(Tail(name))}

NoLevels ==
    { <<>>,
      <<"T", "R", "A", "C", "E">>,
      <<"w", "a", "r", "n">>,
      <<"I", "N", "F", "O", " ">>,
      <<" ", "i", "n", "f", "o">>,
      <<"I", "N", "F", "0">>,
      <<"I", "N", "F">>,
      <<"1", "0">>,
      <<"F", "A", "T", "A", "L">>,
      <<"d", "e", "b", "u", "g", "g">>,
      <<"c", "r", "i", "t", "i", "c", "a", "l", "sharp_s">> }

\* spellings with a character whose upper case is a letter of a name
OtherSpellings ==
    { <<"dotless_i", "n", "f", "o">>,
      <<"W", "a", "r", "n", "dotless_i", "n", "g">> }

LogLevels ==
    UNION {Spellings(valid_levels[i]) : i \in 1..Len(valid_levels)}
        \cup NoLevels \cup OtherSpellings

InitConfig ==
    /\ environ \in {[SPOTIFY_CLIENT_ID |-> "set"]}
                   \cup {[SPOTIFY_CLIENT_ID |-> "set", LOG_LEVEL |-> v] : v \in LogLevels}
    /\ settings = None
    /\ pc = "config"
    /\ passes = <<>>
    /\ IdleScore
    /\ IdleProfile
    /\ IdleRank
    /\ IdleTags
    /\ IdleTriage
    /\ IdleRequests
    /\ IdleHealth
    /\ IdleAuth
    /\ IdleFlows

NextConfig == GetSettings

SpecConfig == InitConfig /\ [][NextConfig]_vars

(***************************************************************************)
(* Properties of the validation of LOG_LEVEL (under SpecConfig).           *)
(***************************************************************************)
\* C19: a LOG_LEVEL whose upper-cased value is none of the five names makes
\* Settings() fail with a validation error; for any other LOG_LEVEL the
\* instance stores the upper-cased value, which is one of the five names.
C19_LogLevelValidated ==
    (pc = "configured" /\ "LOG_LEVEL" \in DOMAIN environ) =>
        LET v == environ["LOG_LEVEL"]
        IN  IF \A i \in 1..Len(valid_levels) : upper(v) # valid_levels[i]
            THEN settings = ValidationError
            ELSE /\ settings # ValidationError
                 /\ settings.LOG_LEVEL = upper(v)
                 /\ \E i \in 1..Len(valid_levels) : settings.LOG_LEVEL = valid_levels[i]

\* Settings() was built from a LOG_LEVEL in mixed case, and stores another
\* spelling than the one given
C19_Witness ==
    /\ pc = "configured"
    /\ "LOG_LEVEL" \in DOMAIN environ
    /\ "LOG_LEVEL" \in DOMAIN settings
    /\ environ["LOG_LEVEL"] = <<"W", "a", "r", "N", "i", "n", "g">>
    /\ settings.LOG_LEVEL = <<"W", "A", "R", "N", "I", "N", "G">>

(***************************************************************************)
(* The access token of a request (app/core/dependencies.py).  FastAPI      *)
(* resolves get_current_user_token before it calls next_song; an exception *)
(* of the dependency is the response and next_song is not called.          *)
(***************************************************************************)
AuthenticationException == [type |-> "AuthenticationException", status_code |-> 401]

\* str.startswith(prefix)
startswith(str, prefix) ==
    /\ Len(str) >= Len(prefix)
    /\ SubSeq(str, 1, Len(prefix)) = prefix

\* str.split(sep, 1): the parts around the first sep, or the str alone
split(str, sep) ==
    IF \E i \in 1..Len(str) : str[i] = sep
    THEN LET first == CHOOSE i \in 1..Len(str) :
                          /\ str[i] = sep
                          /\ \A j \in 1..(i - 1) : str[j] # sep
         IN  <<SubSeq(str, 1, first - 1), SubSeq(str, first + 1, Len(str))>>
    ELSE <<str>>

\* "Bearer "
BearerPrefix == <<"B", "e", "a", "r", "e", "r", " ">>

\* token after the header was tried: "" stands for the falsy None and ""
HeaderToken(req) ==
    IF "Authorization" \notin DOMAIN req.headers THEN <<>>
    ELSE LET auth_header == req.headers["Authorization"]
         IN  IF auth_header # <<>> /\ startswith(auth_header, BearerPrefix)
             THEN split(auth_header, " ")[2]
             ELSE <<>>

\* request.cookies.get("access_token"): "" stands for the falsy None and ""
CookieToken(req) ==
    IF "access_token" \in DOMAIN req.cookies THEN req.cookies["access_token"] ELSE <<>>

\* faulty variant: the Authorization header is tried first
get_access_token_from_request_HeaderFirst(req) ==
    IF HeaderToken(req) # <<>> THEN [returns |-> HeaderToken(req)]
    ELSE IF CookieToken(req) # <<>> THEN [returns |-> CookieToken(req)]
    ELSE [raises |-> AuthenticationException]

\* get_access_token_from_request(request)
get_access_token_from_request(req) ==
    LET cookie == CookieToken(req)
        token  == IF cookie = <<>> THEN HeaderToken(req) ELSE cookie
    IN  IF token = <<>> THEN [raises |-> AuthenticationException]
        ELSE [returns |-> token]

\* get_current_user_token(request)
get_current_user_token(req) ==
    LET result == get_access_token_from_request(req)
    IN  IF "raises" \in DOMAIN result /\ result.raises = AuthenticationException
        THEN [raises |-> HTTPException(401)]
        ELSE result

\* GET /triage/next arrives: the dependency returns the token and next_song
\* starts, or the dependency's exception is the response
GetCurrentUserToken ==
    /\ pc = "auth"
    /\ LET result == get_current_user_token(request)
       IN  IF "raises" \in DOMAIN result
           THEN /\ response' = result.raises
                /\ pc' = "responded"
                /\ UNCHANGED access_token
           ELSE /\ access_token' = result.returns
                /\ pc' = "playlists"
                /\ UNCHANGED response
    /\ UNCHANGED <<request, library, sp_playlists, sp_idx, playlist_track_ids,
                   unassigned_tracks, song, tags, requestVars, passes, flowVars, healthVars,
                   configVars, scoreVars, profileVars, rankVars>>

(***************************************************************************)
(* Inputs: the cookies and the Authorization header of the request.        *)
(***************************************************************************)
CookieValues == { <<>>, <<"c", "k">>, <<"c", " ", "k">> }

HeaderValues ==
    { <<>>,
      <<"B", "e", "a", "r", "e", "r", " ", "t", "k">>,
      <<"B", "e", "a", "r", "e", "r", " ">>,
      <<"B", "e", "a", "r", "e", "r">>,
      <<"b", "e", "a", "r", "e", "r", " ", "t", "k">>,
      <<"B", "a", "s", "i", "c", " ", "t", "k">>,
      <<"B", "e", "a", "r", "e", "r", " ", " ", "t", "k">>,
      <<"B", "e", "a", "r", "e", "r", " ", "t", " ", "k">>,
      <<"B", "e", "a", "r", "e", "r", "X", " ", "t", "k">>,
      <<" ", "B", "e", "a", "r", "e", "r", " ", "t", "k">>,
      <<"t", "k">> }

Requests ==
    { [cookies |-> c, headers |-> h] :
        c \in {[session |-> "s"]}
              \cup {[session |-> "s", access_token |-> v] : v \in CookieValues},
        h \in {[Host |-> "api"]}
              \cup {[Host |-> "api", Authorization |-> v] : v \in HeaderValues} }

InitAuth ==
    /\ request \in Requests
    /\ access_token = None
    /\ library \in {[playlists |-> <<>>, saved |-> <<>>],
                    [playlists |-> <<Playlist("few")>>, saved |-> <<SavedTrack(8)>>]}
    /\ sp_playlists = <<>>
    /\ sp_idx = 0
    /\ playlist_track_ids = {}
    /\ unassigned_tracks = <<>>
    /\ song = None
    /\ response = None
    /\ pc = "auth"
    /\ passes = <<>>
    /\ IdleRequests
    /\ IdleTags
    /\ IdleScore
    /\ IdleProfile
    /\ IdleRank
    /\ IdleHealth
    /\ IdleConfig
    /\ IdleFlows

NextAuth ==
    \/ GetCurrentUserToken
    \/ ListPlaylists
    \/ ListPlaylistTracks
    \/ ListSaved
    \/ UnassignedRequestFails

SpecAuth == InitAuth /\ [][NextAuth]_vars

(***************************************************************************)
(* Properties of the token resolution (under SpecAuth).                    *)
(***************************************************************************)
\* the request carries a non-empty access_token cookie
HasCookie ==
    /\ "access_token" \in DOMAIN request.cookies
    /\ Len(request.cookies["access_token"]) > 0

\* the request carries an Authorization header of "Bearer " and more text
HasBearer ==
    /\ "Authorization" \in DOMAIN request.headers
    /\ Len(request.headers["Authorization"]) > 7
    /\ \A i \in 1..7 : request.headers["Authorization"][i] = BearerPrefix[i]

\* next_song has not run: nothing was listed, selected or answered by it
NoTriageWork ==
    /\ sp_playlists = <<>>
    /\ sp_idx = 0
    /\ playlist_track_ids = {}
    /\ unassigned_tracks = <<>>
    /\ song = None

\* C20: once the dependency has run, a request with a non-empty cookie has
\* the cookie as its token, also when it carries an Authorization header; a
\* request without one has the text after "Bearer " of its header; every
\* other request is answered 401, has no token, and next_song never runs.
C20_CookieThenBearerElse401 ==
    pc # "auth" =>
        IF HasCookie
        THEN /\ response # HTTPException(401)
             /\ access_token = request.cookies["access_token"]
        ELSE IF HasBearer
        THEN /\ response # HTTPException(401)
             /\ access_token = SubSeq(request.headers["Authorization"], 8,
                                      Len(request.headers["Authorization"]))
        ELSE /\ response = HTTPException(401)
             /\ pc = "responded"
             /\ access_token = None
             /\ NoTriageWork

\* a request with a cookie and a bearer header got the cookie as its token
\* and next_song has listed the playlists
C20_Witness ==
    /\ pc = "playlist_tracks"
    /\ HasCookie
    /\ HasBearer
    /\ access_token = request.cookies["access_token"]
    /\ sp_playlists # <<>>

(***************************************************************************)
(* Properties of the selection of the song (under SpecTriage).             *)
(***************************************************************************)
\* no audio-features request of the song and no request of a playlist
\* profile has been issued: next_song is not behind its first two awaits
NoFeatureOrProfileRequest ==
    /\ pc \notin {"track_features", "loop", "tracks", "features", "returned", "raised", "done"}
    /\ playlist_idx = 0
    /\ track_items = <<>>
    /\ track_ids = <<>>
    /\ requested_ids = <<>>
    /\ suggestions = <<>>

\* C21: the request answered ResourceNotFoundException (404) found no
\* unassigned track and has issued no audio-features and no profile request;
\* the step that finds the list empty is the step that answers; a song that
\* was selected is the first element of the unassigned list.
C21_NotFoundBeforeRankingElseFirst ==
    /\ []( response = ResourceNotFoundException =>
              /\ response.status_code = 404
              /\ pc = "responded"
              /\ unassigned_tracks = <<>>
              /\ song = None
              /\ NoFeatureOrProfileRequest )
    /\ []( song # None =>
              /\ unassigned_tracks # <<>>
              /\ song = unassigned_tracks[1]
              /\ response # ResourceNotFoundException )
    /\ [][ (pc = "saved" /\ FilterUnassigned(library.saved, playlist_track_ids) = <<>>
               /\ response' # SpotifyAPIException) =>
              (response' = ResourceNotFoundException /\ NoFeatureOrProfileRequest') ]_vars

\* the request has been answered with suggestions for the first of two
\* unassigned songs, the second saved track of the library
C21_Witness ==
    /\ pc = "responded"
    /\ Len(unassigned_tracks) = 2
    /\ unassigned_tracks[1] # unassigned_tracks[2]
    /\ song = unassigned_tracks[1]
    /\ "song_to_sort" \in DOMAIN response
    /\ response.song_to_sort = unassigned_tracks[1]
    /\ response.suggestions # <<>>

(***************************************************************************)
(* Properties of the failures of next_song (under SpecTriage).  raised is  *)
(* the exception raised in the body of the try statement.                  *)
(***************************************************************************)
\* the exception types that next_song re-raises
Reraised == {"ResourceNotFoundException", "SpotifyAPIException"}

\* C22: a request that was answered with a failure carries
\* ResourceNotFoundException (404) or SpotifyAPIException (502) exactly as
\* raised in the body, or HTTPException(500) in the place of any other
\* exception; nothing else leaves the handler, and a request whose body
\* raised nothing is answered 200.
C22_ThreeFailureOutcomes ==
    pc = "responded" =>
        /\ "status_code" \in DOMAIN response
        /\ response.status_code \in {200, 404, 502, 500}
        /\ IF raised = None
           THEN /\ response.status_code = 200
                /\ "type" \notin DOMAIN response
           ELSE /\ "type" \in DOMAIN response
                /\ response.type \in Reraised \cup {"HTTPException"}
                /\ IF raised.type \in Reraised
                   THEN /\ response = raised
                        /\ response.status_code =
                               IF raised.type = "ResourceNotFoundException" THEN 404 ELSE 502
                   ELSE response = HTTPException(500)

\* a connection error of _get_user_playlists or _get_track_audio_features,
\* which no except clause of theirs converts, was answered with status 500
C22_Witness ==
    /\ pc = "responded"
    /\ song # None
    /\ raised # None
    /\ raised.type = "ConnectError"
    /\ response = HTTPException(500)

(***************************************************************************)
(* SpotifyService._get_paginated_data in detail: one request per step.  A  *)
(* url is [page |-> k], the address of the server's page k.                *)
(***************************************************************************)
MaxPages == 3

\* the requests after which a call that has not ended is no longer followed
MaxRequests == MaxPages + 1

\* "while url:": None ends the loop
Truthy(url) == url # None

\* faulty variant: the items of a page replace the items collected
extend_Replace(all_items, items) == items

\* all_items.extend(items)
extend(all_items, items) == all_items \o items

\* data = await self._make_spotify_request(url, access_token) returns: the
\* items are collected and the loop goes on to the request of data.get("next")
\* or, without it, to "return all_items"
FetchPage ==
    /\ pc = "page"
    /\ Truthy(paging.url)
    /\ Len(paging.requests) < MaxRequests
    /\ LET data  == paging.pages[paging.url.page]
           items == Get(data, "items", <<>>)
           url   == Get(data, "next", None)
           all_items == extend(paging.all_items, items)
       IN  /\ paging' = [paging EXCEPT
                            !.all_items = all_items,
                            !.url = url,
                            !.requests = Append(@, paging.url),
                            !.result = IF Truthy(url) THEN @ ELSE [returns |-> all_items]]
           /\ pc' = IF Truthy(url) THEN "page" ELSE "returned"
    /\ UNCHANGED <<oauth, coreVars, passes, healthVars, configVars, authVars>>

\* the request of a page fails: SpotifyAPIException leaves _get_paginated_data
FetchPageFails ==
    /\ pc = "page"
    /\ Truthy(paging.url)
    /\ Len(paging.requests) < MaxRequests
    /\ \E outcome \in FailedOutcomes :
          paging' = [paging EXCEPT
                        !.requests = Append(@, paging.url),
                        !.result = [raises |-> _make_spotify_request(outcome).raises]]
    /\ pc' = "raised"
    /\ UNCHANGED <<oauth, coreVars, passes, healthVars, configVars, authVars>>

(***************************************************************************)
(* Inputs: servers of up to MaxPages pages.  A page holds two items, an    *)
(* empty list or no "items" key, and a link to the next page, a link back  *)
(* to the first page, a null link or no "next" key.                        *)
(***************************************************************************)
PageItemKinds == {"two", "empty", "missing"}

PageNextKinds == {"forward", "first", "null", "missing"}

ServerPage(k, n, items, next) ==
    LET link == IF next = "forward" /\ k < n THEN [page |-> k + 1]
                ELSE IF next = "first" THEN [page |-> 1]
                ELSE None
        its  == IF items = "two" THEN <<10 * k + 1, 10 * k + 2>> ELSE <<>>
    IN  IF items = "missing" /\ next = "missing" THEN [href |-> k]
        ELSE IF items = "missing" THEN [href |-> k, next |-> link]
        ELSE IF next = "missing" THEN [href |-> k, items |-> its]
        ELSE [href |-> k, items |-> its, next |-> link]

Servers ==
    UNION { { [k \in 1..n |-> ServerPage(k, n, items[k], next[k])] :
                items \in [1..n -> PageItemKinds], next \in [1..n -> PageNextKinds] } :
            n \in 1..MaxPages }

InitPages ==
    /\ \E pages \in Servers :
          paging = [pages |-> pages, url |-> [page |-> 1], all_items |-> <<>>,
                    requests |-> <<>>, result |-> None]
    /\ oauth = None
    /\ pc = "page"
    /\ passes = <<>>
    /\ IdleScore
    /\ IdleProfile
    /\ IdleRank
    /\ IdleTags
    /\ IdleTriage
    /\ IdleRequests
    /\ IdleHealth
    /\ IdleConfig
    /\ IdleAuth

NextPages ==
    \/ FetchPage
    \/ FetchPageFails

SpecPages == InitPages /\ [][NextPages]_vars

\* a request that was sent is answered or fails: the call is not left waiting
FairSpecPages == SpecPages /\ WF_vars(NextPages)

(***************************************************************************)
(* Properties of _get_paginated_data (under FairSpecPages).                *)
(***************************************************************************)
\* the link of page k, None where the chain ends
NextOf(pages, k) == IF "next" \in DOMAIN pages[k] THEN pages[k]["next"] ELSE None

\* the pages on the chain of links from page k, at most fuel of them
RECURSIVE ChainFrom(_, _, _)
ChainFrom(pages, k, fuel) ==
    IF fuel = 0 THEN <<>>
    ELSE IF NextOf(pages, k) = None THEN <<k>>
    ELSE <<k>> \o ChainFrom(pages, NextOf(pages, k).page, fuel - 1)

Chain == ChainFrom(paging.pages, 1, Len(paging.pages))

\* the chain of links reaches a page without a link
FiniteChain == NextOf(paging.pages, Chain[Len(Chain)]) = None

\* the items of the pages of a chain, in page order
RECURSIVE ItemsOf(_, _)
ItemsOf(pages, chain) ==
    IF chain = <<>> THEN <<>>
    ELSE (IF "items" \in DOMAIN pages[Head(chain)] THEN pages[Head(chain)]["items"] ELSE <<>>)
             \o ItemsOf(pages, Tail(chain))

Terminated == pc \in {"returned", "raised"}

\* C23: on a server whose chain of links is finite the call ends; every page
\* of the chain is requested at most once and in chain order; the call that
\* returns has requested every page of the chain exactly once and returns
\* their items concatenated in page order; the call that met a failed
\* request raises SpotifyAPIException and returns nothing.
C23_PaginationTerminatesAndConcatenates ==
    /\ FiniteChain ~> Terminated
    /\ []( FiniteChain =>
              /\ Len(paging.requests) <= Len(Chain)
              /\ \A i \in 1..Len(paging.requests) : paging.requests[i] = [page |-> Chain[i]] )
    /\ []( (FiniteChain /\ pc = "returned") =>
              /\ Len(paging.requests) = Len(Chain)
              /\ paging.result = [returns |-> ItemsOf(paging.pages, Chain)] )
    /\ []( pc = "raised" => paging.result = [raises |-> SpotifyAPIException] )
    /\ []( pc = "page" => paging.result = None )

\* three pages were requested and the items of the first and the third,
\* around a page without "items", were returned in page order
C23_Witness ==
    /\ pc = "returned"
    /\ Len(paging.requests) = 3
    /\ paging.result = [returns |-> <<11, 12, 31, 32>>]

(***************************************************************************)
(* GET /auth/callback (app/routers/auth.py).  A query parameter that is    *)
(* missing and one with an empty value are both falsy; "" stands for both. *)
(* The attributes of a cookie other than its value are left out.           *)
(***************************************************************************)
\* request.query_params.get(key)
QueryGet(query_params, key) == Get(query_params, key, "")

\* _exchange_code_for_tokens(code, settings, client) when the token endpoint
\* answers with outcome: both except clauses raise SpotifyAPIException
_exchange_code_for_tokens(outcome) ==
    IF "error" \in DOMAIN outcome THEN [raises |-> SpotifyAPIException]
    ELSE IF RaisesForStatus(outcome) THEN [raises |-> SpotifyAPIException]
    ELSE IF ~outcome.json THEN [raises |-> SpotifyAPIException]
    ELSE [returns |-> outcome.token_data]

\* a response without Set-Cookie headers
NoCookies == [key \in {} |-> ""]

\* response.set_cookie(key=key, value=value, ...)
set_cookie(cookies, key, value) ==
    [k \in DOMAIN cookies \cup {key} |-> IF k = key THEN value ELSE cookies[k]]

\* faulty variant: the cookie is set whether or not the token is there
SetTokenCookie_Always(cookies, token_data, key) ==
    set_cookie(cookies, key, Get(token_data, key, ""))

\* if key in token_data: response.set_cookie(key=key, value=token_data[key], ...)
SetTokenCookie(cookies, token_data, key) ==
    IF key \in DOMAIN token_data THEN set_cookie(cookies, key, token_data[key])
    ELSE cookies

\* RedirectResponse(url="/docs", status_code=302) with the cookies set
RedirectResponse(cookies) == [status_code |-> 302, url |-> "/docs", cookies |-> cookies]

\* callback up to its await: the two checks of the query, then the request
\* to the token endpoint
CallbackBegin ==
    /\ pc = "callback"
    /\ LET code  == QueryGet(oauth.query_params, "code")
           error == QueryGet(oauth.query_params, "error")
       IN  IF error # "" \/ code = ""
           THEN /\ oauth' = [oauth EXCEPT !.response = HTTPException(400)]
                /\ pc' = "responded"
           ELSE /\ oauth' = [oauth EXCEPT !.posts = @ + 1]
                /\ pc' = "exchange"
    /\ UNCHANGED <<paging, coreVars, passes, healthVars, configVars, authVars>>

\* the token endpoint has answered: the exception of the exchange leaves
\* callback, or the redirect is built and the cookies are set
CallbackExchanged ==
    /\ pc = "exchange"
    /\ LET result == _exchange_code_for_tokens(oauth.token_endpoint)
       IN  IF "raises" \in DOMAIN result
           THEN oauth' = [oauth EXCEPT !.response = result.raises]
           ELSE LET token_data == result.returns
                    access  == SetTokenCookie(NoCookies, token_data, "access_token")
                    refresh == SetTokenCookie(access, token_data, "refresh_token")
                IN  oauth' = [oauth EXCEPT !.response = RedirectResponse(refresh)]
    /\ pc' = "responded"
    /\ UNCHANGED <<paging, coreVars, passes, healthVars, configVars, authVars>>

(***************************************************************************)
(* Inputs: the query of the callback and the token endpoint's answer.      *)
(***************************************************************************)
QueryParams ==
    { [state |-> "s"],
      [state |-> "s", code |-> "abc"],
      [state |-> "s", code |-> ""],
      [state |-> "s", error |-> "access_denied"],
      [state |-> "s", error |-> ""],
      [state |-> "s", code |-> "abc", error |-> "access_denied"],
      [state |-> "s", code |-> "abc", error |-> ""],
      [state |-> "s", code |-> "", error |-> "access_denied"],
      [state |-> "s", code |-> "", error |-> ""] }

TokenData ==
    { [token_type |-> "Bearer"],
      [token_type |-> "Bearer", access_token |-> "at"],
      [token_type |-> "Bearer", refresh_token |-> "rt"],
      [token_type |-> "Bearer", access_token |-> "at", refresh_token |-> "rt"] }

TokenEndpoints ==
    { [status_code |-> st, json |-> js, token_data |-> td] :
        st \in {200, 400, 503}, js \in BOOLEAN, td \in TokenData }
        \cup { [error |-> e] : e \in {"ConnectError", "ReadTimeout"} }

InitCallback ==
    /\ \E query_params \in QueryParams, token_endpoint \in TokenEndpoints :
          oauth = [query_params |-> query_params, token_endpoint |-> token_endpoint,
                   posts |-> 0, response |-> None]
    /\ paging = None
    /\ pc = "callback"
    /\ passes = <<>>
    /\ IdleScore
    /\ IdleProfile
    /\ IdleRank
    /\ IdleTags
    /\ IdleTriage
    /\ IdleRequests
    /\ IdleHealth
    /\ IdleConfig
    /\ IdleAuth

NextCallback ==
    \/ CallbackBegin
    \/ CallbackExchanged

SpecCallback == InitCallback /\ [][NextCallback]_vars

(***************************************************************************)
(* Properties of the callback (under SpecCallback).                        *)
(***************************************************************************)
\* the cookies the response sets
CookiesSet ==
    IF "cookies" \in DOMAIN oauth.response THEN DOMAIN oauth.response.cookies ELSE {}

\* the token endpoint answers the exchange with token data
ExchangeSucceeds ==
    /\ "error" \notin DOMAIN oauth.token_endpoint
    /\ oauth.token_endpoint.status_code = 200
    /\ oauth.token_endpoint.json

\* answered 400, no request to the token endpoint, no cookie
Rejected ==
    /\ oauth.response = HTTPException(400)
    /\ oauth.posts = 0
    /\ CookiesSet = {}

\* after the query checks: one request to the token endpoint; a failed
\* exchange raises SpotifyAPIException and sets no cookie; a successful one
\* sets each cookie exactly when the token data hold its token
Exchanged ==
    /\ oauth.posts = 1
    /\ IF ~ExchangeSucceeds
       THEN /\ oauth.response = SpotifyAPIException
            /\ CookiesSet = {}
       ELSE /\ oauth.response.status_code = 302
            /\ CookiesSet = DOMAIN oauth.token_endpoint.token_data
                                \cap {"access_token", "refresh_token"}
            /\ \A key \in CookiesSet :
                  oauth.response.cookies[key] = oauth.token_endpoint.token_data[key]

\* C24: before the answer no cookie is set; a callback with a non-empty error
\* parameter, or without a non-empty code parameter, is answered 400 without a
\* request to the token endpoint and without a cookie; any other callback
\* exchanges the code once and sets cookies only from a successful exchange,
\* each cookie only if the token data hold its token.
C24_CookiesOnlyAfterExchange ==
    /\ pc \in {"callback", "exchange"} => CookiesSet = {}
    /\ pc = "responded" =>
          IF \/ QueryGet(oauth.query_params, "error") # ""
             \/ QueryGet(oauth.query_params, "code") = ""
          THEN Rejected
          ELSE Exchanged

\* C24 as stated: every callback that carries an error parameter, or no code
\* parameter, is answered 400 without a request to the token endpoint and
\* without a cookie.
C24_AnyErrorParameterRejected ==
    (pc = "responded" /\ ("error" \in DOMAIN oauth.query_params
                            \/ "code" \notin DOMAIN oauth.query_params)) => Rejected

\* a callback with a code and an empty error parameter was exchanged for
\* token data without refresh_token: the access_token cookie alone is set
C24_Witness ==
    /\ pc = "responded"
    /\ oauth.query_params = [state |-> "s", code |-> "abc", error |-> ""]
    /\ oauth.posts = 1
    /\ "cookies" \in DOMAIN oauth.response
    /\ DOMAIN oauth.response.cookies = {"access_token"}
    /\ "refresh_token" \notin DOMAIN oauth.token_endpoint.token_data

(***************************************************************************)
(* Properties of the song of a successful response (under SpecTriage, in   *)
(* which no step changes the library).                                     *)
(***************************************************************************)
\* the ids of the tracks of the playlist with the given id
TrackIdsOf(id) ==
    {PlaylistItems(id)[i].track["id"] :
        i \in {j \in 1..Len(PlaylistItems(id)) : PlaylistItems(id)[j].track # None}}

\* the request was answered with a TriageResponse
Succeeded == pc = "responded" /\ "song_to_sort" \in DOMAIN response

\* C25: no step of a request changes the library; both listings of the
\* playlists of a request that succeeded are the library's listing; and the
\* song of its response is a track of none of the user's playlists, so of
\* none of the playlists of its suggestions.
C25_SongInNoPlaylist ==
    /\ [][library' = library]_vars
    /\ []( Succeeded =>
              /\ sp_playlists = library.playlists
              /\ playlists = library.playlists
              /\ response.song_to_sort.id \notin IdsInPlaylists
              /\ \A i \in 1..Len(response.suggestions) :
                    /\ \E p \in 1..Len(library.playlists) :
                          library.playlists[p]["id"] = response.suggestions[i].playlist_id
                    /\ response.song_to_sort.id
                           \notin TrackIdsOf(response.suggestions[i].playlist_id) )

\* saved track 3 is in a playlist and was passed over: the response carries
\* the next saved track and suggests playlists
C25_Witness ==
    /\ Succeeded
    /\ library.saved[1] = SavedTrack(3)
    /\ 3 \in IdsInPlaylists
    /\ response.song_to_sort.id = 9
    /\ response.suggestions # <<>>

====
